---- MODULE Spec2Model ----
(***************************************************************************)
(* A model of client-metadata: the user-agent classifier, the fingerprint  *)
(* generator, the geolocation resolver (location.ts) and the aggregator    *)
(* collectMetadata (metadata.ts), run by one event loop against a clock,   *)
(* a network and an ambient browser environment.                           *)
(***************************************************************************)
EXTENDS Integers, Sequences, FiniteSets, TLC

VARIABLES
  env,      \* the ambient globals: navigator, screen, timezone, document probes
  opts,     \* the options object collectMetadata was called with (undefined before)
  now,      \* the clock, in ms since the call
  cm,       \* the collectMetadata call: pc, uaInfo, result or error
  locP,     \* element 0 of Promise.allSettled: the promise of getLocation (or null)
  fpP,      \* element 1 of Promise.allSettled: the promise of the fingerprint job
  loc,      \* the getLocation call: pc, provider index, data it resolved from
  timers,   \* per provider attempt: the setTimeout that aborts its request
  aborted,  \* per provider attempt: controller.signal.aborted
  fetches,  \* the urls requested with fetch, in order
  calls,    \* what each call of parseUserAgent, getFingerprint and
            \* fetchFromProvider returned or threw, in order, the argument
            \* of each getFingerprint call, and what the catch block of
            \* fetchFromProvider caught
  race,     \* the getLocationWithTimeout call: pc, timeoutMs, its promise, its timer
  log,      \* console.warn / console.log output, in order
  caller,   \* who made the collectMetadata call: 0 the application, n the n-th
            \* collectData of the hook
  other,    \* a second collectMetadata call, while the first one is running: its
            \* opts, cm, locP, fpP, loc, timers, aborted, fetches, calls and caller
  hook      \* the component that uses useClientMetadata: its state slots

vars == <<env, opts, now, cm, locP, fpP, loc, timers, aborted, fetches, calls, race, log,
          caller, other, hook>>

(***************************************************************************)
(* JavaScript values.                                                      *)
(***************************************************************************)
Undefined == [t |-> "undefined"]
Null == [t |-> "null"]
NaN == [t |-> "number", nan |-> TRUE, v |-> 0]
Num(n) == [t |-> "number", nan |-> FALSE, v |-> n]
Str(s) == [t |-> "string", v |-> s]
Obj(f) == [t |-> "object", v |-> f]
Bool(b) == [t |-> "boolean", v |-> b]
Arr(xs) == [t |-> "array", v |-> xs]
Err(name, message) == [t |-> "error", name |-> name, message |-> message]

\* typeof v
Typeof(v) == IF v.t \in {"null", "error"} THEN "object" ELSE v.t

\* ToBoolean(v): what `!v`, `v && x`, `v || x` and `v ? a : b` test
Truthy(v) ==
  CASE v.t \in {"undefined", "null"} -> FALSE
    [] v.t = "number" -> ~v.nan /\ v.v # 0
    [] v.t = "string" -> v.v # ""
    [] v.t = "boolean" -> v.v
    [] OTHER -> TRUE

\* a || b
Or(a, b) == IF Truthy(a) THEN a ELSE b

\* o.k on an object value: undefined when the key is absent
Get(o, k) == IF k \in DOMAIN o.v THEN o.v[k] ELSE Undefined

\* error instanceof Error
InstanceofError(e) == e.t = "error"

\* what a function call came to: a returned value or a thrown one
Return(v) == [thrown |-> FALSE, value |-> v]
Throw(e) == [thrown |-> TRUE, value |-> e]

\* a promise: pending, or settled with a value or a reason
Pending == [status |-> "pending", value |-> Undefined]
Fulfilled(v) == [status |-> "fulfilled", value |-> v]
Rejected(e) == [status |-> "rejected", value |-> e]

(***************************************************************************)
(* Strings: characters, case, search and character codes.                  *)
(***************************************************************************)
UpperCase == "ABCDEFGHIJKLMNOPQRSTUVWXYZ"
LowerCase == "abcdefghijklmnopqrstuvwxyz"

CharAt(s, i) == SubSeq(s, i, i)

LowerChar(c) ==
  IF \E i \in 1..26 : CharAt(UpperCase, i) = c
  THEN CharAt(LowerCase, CHOOSE i \in 1..26 : CharAt(UpperCase, i) = c)
  ELSE c

RECURSIVE LowerRange(_, _, _)
\* the characters i..j of s in lower case (the range is halved, which keeps the
\* evaluation shallow)
LowerRange(s, i, j) ==
  IF i > j THEN ""
  ELSE IF i = j THEN LowerChar(CharAt(s, i))
  ELSE LET m == (i + j) \div 2 IN LowerRange(s, i, m) \o LowerRange(s, m + 1, j)

\* s.toLowerCase()
toLowerCase(s) == LowerRange(s, 1, Len(s))

\* s contains p as a substring
Contains(s, p) ==
  \E i \in 1..(Len(s) - Len(p) + 1) : SubSeq(s, i, i + Len(p) - 1) = p

\* /a|b|c/.test(s) for a pattern that is an alternation of literals
Test(pattern, s) == \E p \in pattern : Contains(s, p)

\* The printable ASCII characters in code order, in runs that leave out the
\* double quote (34), the backslash (92) and the backtick (96).
AsciiFrom32 == " !"
AsciiFrom35 == "#$%&'()*+,-./0123456789:;<=>?@ABCDEFGHIJKLMNOPQRSTUVWXYZ["
AsciiFrom93 == "]^_"
AsciiFrom97 == "abcdefghijklmnopqrstuvwxyz{|}~"

IndexIn(run, c) == CHOOSE i \in 1..Len(run) : CharAt(run, i) = c

\* s.charCodeAt(i) for the one-character string c
charCode(c) ==
  CASE \E i \in 1..Len(AsciiFrom32) : CharAt(AsciiFrom32, i) = c -> 31 + IndexIn(AsciiFrom32, c)
    [] \E i \in 1..Len(AsciiFrom35) : CharAt(AsciiFrom35, i) = c -> 34 + IndexIn(AsciiFrom35, c)
    [] \E i \in 1..Len(AsciiFrom93) : CharAt(AsciiFrom93, i) = c -> 92 + IndexIn(AsciiFrom93, c)
    [] \E i \in 1..Len(AsciiFrom97) : CharAt(AsciiFrom97, i) = c -> 96 + IndexIn(AsciiFrom97, c)

Digits == "0123456789abcdef"

RECURSIVE NatToString(_, _)
\* n.toString(radix) for n >= 0
NatToString(n, radix) ==
  IF n < radix THEN CharAt(Digits, n + 1)
  ELSE NatToString(n \div radix, radix) \o CharAt(Digits, (n % radix) + 1)

\* String(v) as Array.prototype.join applies it: '' for undefined and null
JoinString(v) ==
  CASE v.t \in {"undefined", "null"} -> ""
    [] v.t = "string" -> v.v
    [] v.t = "number" ->
         IF v.nan THEN "NaN"
         ELSE IF v.v < 0 THEN "-" \o NatToString(-v.v, 10) ELSE NatToString(v.v, 10)

RECURSIVE JoinFrom(_, _, _)
JoinFrom(xs, i, sep) ==
  IF i > Len(xs) THEN ""
  ELSE IF i = Len(xs) THEN JoinString(xs[i])
  ELSE JoinString(xs[i]) \o sep \o JoinFrom(xs, i + 1, sep)

\* xs.join(sep)
join(xs, sep) == JoinFrom(xs, 1, sep)

(***************************************************************************)
(* The user-agent classifier.                                              *)
(***************************************************************************)
platforms == <<
  [pattern |-> {"windows nt 10"}, name |-> "Windows 10/11"],
  [pattern |-> {"windows nt 6.3"}, name |-> "Windows 8.1"],
  [pattern |-> {"windows nt 6.2"}, name |-> "Windows 8"],
  [pattern |-> {"windows nt 6.1"}, name |-> "Windows 7"],
  [pattern |-> {"windows"}, name |-> "Windows"],
  [pattern |-> {"iphone", "ipod"}, name |-> "iOS"],
  [pattern |-> {"ipad"}, name |-> "iPadOS"],
  [pattern |-> {"macintosh", "mac os x"}, name |-> "macOS"],
  [pattern |-> {"android"}, name |-> "Android"],
  [pattern |-> {"ubuntu"}, name |-> "Ubuntu"],
  [pattern |-> {"debian"}, name |-> "Debian"],
  [pattern |-> {"fedora"}, name |-> "Fedora"],
  [pattern |-> {"centos"}, name |-> "CentOS"],
  [pattern |-> {"linux"}, name |-> "Linux"],
  [pattern |-> {"chromeos"}, name |-> "Chrome OS"],
  [pattern |-> {"freebsd"}, name |-> "FreeBSD"],
  [pattern |-> {"openbsd"}, name |-> "OpenBSD"],
  [pattern |-> {"netbsd"}, name |-> "NetBSD"],
  [pattern |-> {"sunos"}, name |-> "Solaris"] >>

\* the table with the generic Chrome entry ahead of the Chromium browsers
browsers_ChromeFirst == <<
  [pattern |-> {"chrome/"}, name |-> "Chrome"],
  [pattern |-> {"edg/"}, name |-> "Edge"],
  [pattern |-> {"edge/"}, name |-> "Edge Legacy"],
  [pattern |-> {"opr/"}, name |-> "Opera"],
  [pattern |-> {"brave/"}, name |-> "Brave"],
  [pattern |-> {"vivaldi/"}, name |-> "Vivaldi"],
  [pattern |-> {"firefox/"}, name |-> "Firefox"],
  [pattern |-> {"safari/"}, name |-> "Safari"],
  [pattern |-> {"msie", "trident"}, name |-> "Internet Explorer"],
  [pattern |-> {"samsung"}, name |-> "Samsung Internet"],
  [pattern |-> {"ucbrowser"}, name |-> "UC Browser"] >>

\* the table with the Safari entry ahead of every other
browsers_SafariFirst == <<
  [pattern |-> {"safari/"}, name |-> "Safari"],
  [pattern |-> {"edg/"}, name |-> "Edge"],
  [pattern |-> {"edge/"}, name |-> "Edge Legacy"],
  [pattern |-> {"opr/"}, name |-> "Opera"],
  [pattern |-> {"brave/"}, name |-> "Brave"],
  [pattern |-> {"vivaldi/"}, name |-> "Vivaldi"],
  [pattern |-> {"chrome/"}, name |-> "Chrome"],
  [pattern |-> {"firefox/"}, name |-> "Firefox"],
  [pattern |-> {"msie", "trident"}, name |-> "Internet Explorer"],
  [pattern |-> {"samsung"}, name |-> "Samsung Internet"],
  [pattern |-> {"ucbrowser"}, name |-> "UC Browser"] >>

browsers == <<
  [pattern |-> {"edg/"}, name |-> "Edge"],
  [pattern |-> {"edge/"}, name |-> "Edge Legacy"],
  [pattern |-> {"opr/"}, name |-> "Opera"],
  [pattern |-> {"brave/"}, name |-> "Brave"],
  [pattern |-> {"vivaldi/"}, name |-> "Vivaldi"],
  [pattern |-> {"chrome/"}, name |-> "Chrome"],
  [pattern |-> {"firefox/"}, name |-> "Firefox"],
  [pattern |-> {"safari/"}, name |-> "Safari"],
  [pattern |-> {"msie", "trident"}, name |-> "Internet Explorer"],
  [pattern |-> {"samsung"}, name |-> "Samsung Internet"],
  [pattern |-> {"ucbrowser"}, name |-> "UC Browser"] >>

\* the name of the first entry of the table whose pattern matches ua
FirstMatch(table, ua) ==
  IF \E i \in 1..Len(table) : Test(table[i].pattern, ua)
  THEN table[CHOOSE i \in 1..Len(table) :
               /\ Test(table[i].pattern, ua)
               /\ \A j \in 1..(i - 1) : ~Test(table[j].pattern, ua)].name
  ELSE "Unknown"

\* a detection that returns the last entry of the table that matches
detectPlatform_LastMatch(userAgent) ==
  LET ua == toLowerCase(userAgent)
      matching == {i \in 1..Len(platforms) : Test(platforms[i].pattern, ua)}
  IN  IF matching = {} THEN "Unknown"
      ELSE platforms[CHOOSE i \in matching : \A j \in matching : j <= i].name

detectPlatform(userAgent) == FirstMatch(platforms, toLowerCase(userAgent))

detectBrowser(userAgent) ==
  LET ua == toLowerCase(userAgent) IN
  IF Contains(ua, "safari") /\ ~Contains(ua, "chrome") THEN "Safari"
  ELSE FirstMatch(browsers, ua)

\* detectDeviceType with the check for mobile devices ahead of the one for tablets
detectDeviceType_MobileFirst(userAgent) ==
  LET ua == toLowerCase(userAgent) IN
  IF Test({"mobile", "android", "iphone", "ipod", "blackberry", "opera mini",
           "iemobile", "wpdesktop"}, ua) THEN "mobile"
  ELSE IF Test({"ipad", "tablet", "kindle", "playbook", "silk"}, ua) THEN "tablet"
  ELSE "desktop"

detectDeviceType(userAgent) ==
  LET ua == toLowerCase(userAgent) IN
  IF Test({"ipad", "tablet", "kindle", "playbook", "silk"}, ua) THEN "tablet"
  ELSE IF Test({"mobile", "android", "iphone", "ipod", "blackberry", "opera mini",
                "iemobile", "wpdesktop"}, ua) THEN "mobile"
  ELSE "desktop"

\* parseUserAgent() returning the lower-cased copy it matches against
parseUserAgent_Lowercased(e) ==
  IF e.navigator = Undefined
  THEN Throw(Err("ReferenceError", "navigator is not defined"))
  ELSE LET ua == Get(e.navigator, "userAgent") IN
       IF ua.t # "string"
       THEN Throw(Err("TypeError", "Cannot read properties of undefined (reading 'toLowerCase')"))
       ELSE Return(Obj([userAgent |-> Str(toLowerCase(ua.v)),
                        platform |-> Str(detectPlatform(ua.v)),
                        browser |-> Str(detectBrowser(ua.v)),
                        deviceType |-> Str(detectDeviceType(ua.v))]))

\* parseUserAgent() in the environment e: it reads the global navigator, which
\* is not defined outside a browser (a ReferenceError), and calls toLowerCase
\* on navigator.userAgent (a TypeError when that is not a string)
parseUserAgent(e) ==
  IF e.navigator = Undefined
  THEN Throw(Err("ReferenceError", "navigator is not defined"))
  ELSE LET ua == Get(e.navigator, "userAgent") IN
       IF ua.t # "string"
       THEN Throw(Err("TypeError", "Cannot read properties of undefined (reading 'toLowerCase')"))
       ELSE Return(Obj([userAgent |-> ua,
                        platform |-> Str(detectPlatform(ua.v)),
                        browser |-> Str(detectBrowser(ua.v)),
                        deviceType |-> Str(detectDeviceType(ua.v))]))

(***************************************************************************)
(* The fingerprint generator.  A 32-bit integer is kept as its two 16-bit  *)
(* halves [hi, lo] (two's complement), so that no product leaves the range *)
(* of 32-bit integer arithmetic.                                           *)
(***************************************************************************)
Half == 65536

\* one round of the loop of hashCharacteristics:
\*   hash = ((hash << 5) - hash) + char; hash = hash & hash
HashStep(hash, char) ==
  LET low == 31 * hash.lo + char IN
  [hi |-> (31 * hash.hi + (low \div Half)) % Half, lo |-> low % Half]

RECURSIVE HashRange(_, _, _, _)
\* the loop of hashCharacteristics over the characters i..j of data, in order,
\* from hash: the first half of the range, then the second half from the value
\* the first came to (halving keeps the evaluation shallow)
HashRange(data, i, j, hash) ==
  IF i > j THEN hash
  ELSE IF i = j THEN HashStep(hash, charCode(CharAt(data, i)))
  ELSE LET m == (i + j) \div 2 IN
       CHOOSE h \in {HashRange(data, m + 1, j, left) : left \in {HashRange(data, i, m, hash)}} : TRUE

\* the 32-bit integer taken as it is, without Math.abs
MathAbs_Unsigned(hash) == hash

\* Math.abs of a 32-bit integer: the magnitude, up to 2^31
MathAbs(hash) ==
  IF hash.hi < Half \div 2 THEN hash
  ELSE IF hash.lo = 0 THEN [hi |-> Half - hash.hi, lo |-> 0]
  ELSE [hi |-> Half - 1 - hash.hi, lo |-> Half - hash.lo]

\* four hexadecimal digits of a half, with leading zeros
Hex4(n) ==
  CharAt(Digits, (n \div 4096) + 1) \o CharAt(Digits, ((n \div 256) % 16) + 1)
    \o CharAt(Digits, ((n \div 16) % 16) + 1) \o CharAt(Digits, (n % 16) + 1)

\* (n).toString(16) of a magnitude
ToHex(n) ==
  IF n.hi = 0 THEN NatToString(n.lo, 16) ELSE NatToString(n.hi, 16) \o Hex4(n.lo)

hashCharacteristics(characteristics) ==
  LET fingerprintData == join(characteristics, "|")
      hash == HashRange(fingerprintData, 1, Len(fingerprintData), [hi |-> 0, lo |-> 0])
  IN  ToHex(MathAbs(hash))

\* reading the global named g in e: a ReferenceError when it is not defined
GlobalMissing(e, g) == e[g] = Undefined
ReferenceError(g) == Err("ReferenceError", g \o " is not defined")

\* a fast fingerprint that counts the time of the call among the characteristics
getFastFingerprint_Timestamp(e) ==
  IF e["navigator"] = Undefined \/ e["screen"] = Undefined
  THEN Throw(Err("ReferenceError", "navigator is not defined"))
  ELSE Return(Str(hashCharacteristics(<<
         Get(e.navigator, "userAgent"),
         Get(e.screen, "width"),
         Num(now) >>)))

getFastFingerprint(e) ==
  IF GlobalMissing(e, "navigator") THEN Throw(ReferenceError("navigator"))
  ELSE IF GlobalMissing(e, "screen") THEN Throw(ReferenceError("screen"))
  ELSE Return(Str(hashCharacteristics(<<
         Get(e.navigator, "userAgent"),
         Get(e.navigator, "language"),
         Get(e.navigator, "platform"),
         Get(e.screen, "width"),
         Get(e.screen, "height"),
         Get(e.screen, "colorDepth"),
         e.timezoneOffset,
         Or(Get(e.navigator, "hardwareConcurrency"), Str("unknown")),
         Or(Get(e.navigator, "maxTouchPoints"), Num(0)) >>)))

\* navigator.languages?.join(',') || ''
LanguagesJoined(navigator) ==
  LET languages == Get(navigator, "languages") IN
  IF languages.t \in {"undefined", "null"} THEN Str("")
  ELSE Or(Str(join(languages.v, ",")), Str(""))

getBasicCharacteristics(e) ==
  <<Get(e.navigator, "userAgent"),
    Get(e.navigator, "language"),
    LanguagesJoined(e.navigator),
    Get(e.navigator, "platform"),
    IF Truthy(Get(e.navigator, "cookieEnabled")) THEN Str("true") ELSE Str("false"),
    Or(Get(e.navigator, "doNotTrack"), Str("")),
    Get(e.screen, "width"),
    Get(e.screen, "height"),
    Get(e.screen, "colorDepth"),
    Get(e.screen, "pixelDepth"),
    e.timezoneOffset,
    Or(Get(e.navigator, "hardwareConcurrency"), Num(0)),
    Or(Get(e.navigator, "maxTouchPoints"), Num(0)),
    Or(Get(e.navigator, "vendorSub"), Str("")),
    Or(Get(e.navigator, "productSub"), Str(""))>>

\* The three probes catch what they throw.  What the page draws is the
\* environment's: e.document names, per probe, "throws", "none" (no context)
\* or the string the probe read.
getCanvasFingerprint(e) ==
  IF GlobalMissing(e, "document") \/ Get(e.document, "canvas") = Str("throws") THEN Str("canvas-error")
  ELSE IF Get(e.document, "canvas") = Str("none") THEN Str("no-canvas")
  ELSE Get(e.document, "canvas")

getWebGLFingerprint(e) ==
  IF GlobalMissing(e, "document") \/ Get(e.document, "webgl") = Str("throws") THEN Str("webgl-error")
  ELSE IF Get(e.document, "webgl") = Str("none") THEN Str("no-webgl")
  ELSE IF Get(e.document, "webgl") = Str("no-info") THEN Str("no-webgl-info")
  ELSE Get(e.document, "webgl")

getFontFingerprint(e) ==
  IF GlobalMissing(e, "document") \/ Get(e.document, "fonts") = Str("throws") THEN Str("font-error")
  ELSE IF Get(e.document, "canvas") = Str("none") THEN Str("no-canvas")
  ELSE Get(e.document, "fonts")

getComprehensiveFingerprint(e) ==
  IF GlobalMissing(e, "navigator") THEN Throw(ReferenceError("navigator"))
  ELSE IF GlobalMissing(e, "screen") THEN Throw(ReferenceError("screen"))
  ELSE Return(Str(hashCharacteristics(
         getBasicCharacteristics(e)
           \o <<getCanvasFingerprint(e), getWebGLFingerprint(e), getFontFingerprint(e)>>)))

\* getFingerprint(comprehensive) in the environment e
getFingerprint(e, comprehensive) ==
  LET r == IF comprehensive THEN getComprehensiveFingerprint(e) ELSE getFastFingerprint(e) IN
  IF ~r.thrown THEN r
  ELSE IF InstanceofError(r.value)
       THEN Throw(Err("Error", "Fingerprint generation failed: " \o r.value.message))
       ELSE Throw(Err("Error", "Fingerprint generation failed: Unknown error"))

(***************************************************************************)
(* The console.                                                            *)
(***************************************************************************)
\* one console.warn / console.log call with its arguments
Console(level, args) == [level |-> level, args |-> args]

(***************************************************************************)
(* The geolocation resolver.                                               *)
(***************************************************************************)
\* the provider list with its two entries in the other order
LOCATION_PROVIDERS_Reversed == <<
  [name |-> "ip-api.com", url |-> "http://ip-api.com/json/"],
  [name |-> "ipapi.co", url |-> "https://ipapi.co/json/"] >>

LOCATION_PROVIDERS == <<
  [name |-> "ipapi.co", url |-> "https://ipapi.co/json/"],
  [name |-> "ip-api.com", url |-> "http://ip-api.com/json/"] >>

\* the parser of ipapi.co used for both providers
parser_SameForBoth(i, data) ==
  Obj([country |-> Or(Get(data, "country_name"), Get(data, "country")),
       city |-> Get(data, "city"),
       latitude |-> Get(data, "latitude"),
       longitude |-> Get(data, "longitude")])

\* LOCATION_PROVIDERS[i].parser(data)
parser(i, data) ==
  IF i = 1
  THEN Obj([country |-> Or(Get(data, "country_name"), Get(data, "country")),
            city |-> Get(data, "city"),
            latitude |-> Get(data, "latitude"),
            longitude |-> Get(data, "longitude")])
  ELSE Obj([country |-> Get(data, "country"),
            city |-> Get(data, "city"),
            latitude |-> Get(data, "lat"),
            longitude |-> Get(data, "lon")])

REQUEST_TIMEOUT == 5000

\* isNaN(v) of a value whose typeof is number
isNaN(v) == v.nan

\* a validation that checks the coordinates' type but not their range
validateLocationData_NoRange(location) ==
  LET latitude == location.v["latitude"]
      longitude == location.v["longitude"]
  IN
  IF latitude.t = "undefined" /\ longitude.t = "undefined" THEN TRUE
  ELSE latitude.t = "number" /\ longitude.t = "number" /\ ~latitude.nan /\ ~longitude.nan

\* a validation whose bounds are exclusive
validateLocationData_Exclusive(location) ==
  LET latitude == location.v["latitude"]
      longitude == location.v["longitude"]
  IN
  IF latitude.t = "undefined" /\ longitude.t = "undefined" THEN TRUE
  ELSE /\ latitude.t = "number" /\ longitude.t = "number" /\ ~latitude.nan /\ ~longitude.nan
       /\ -90 < latitude.v /\ latitude.v < 90 /\ -180 < longitude.v /\ longitude.v < 180

validateLocationData(location) ==
  LET latitude == Get(location, "latitude")
      longitude == Get(location, "longitude")
  IN
  IF ~Truthy(Get(location, "country")) \/ ~Truthy(Get(location, "city")) THEN FALSE
  ELSE IF latitude # Undefined \/ longitude # Undefined
       THEN ~(\/ Typeof(latitude) # "number"
              \/ Typeof(longitude) # "number"
              \/ isNaN(latitude)
              \/ isNaN(longitude)
              \/ latitude.v < -90
              \/ latitude.v > 90
              \/ longitude.v < -180
              \/ longitude.v > 180)
       ELSE TRUE

\* fetchFromProvider, lines 72-74: what a resolved fetch comes to
CheckResponse(response) ==
  IF ~response.ok
  THEN Throw(Err("Error", "HTTP " \o NatToString(response.status, 10) \o ": " \o response.statusText))
  ELSE Return(response)

\* fetchFromProvider, lines 78-91: from the parsed body to the returned record
ParseBody(i, data) ==
  IF ~Truthy(data) \/ Typeof(data) # "object"
  THEN Throw(Err("Error", "Invalid response data format"))
  ELSE LET locationData == parser(i, data) IN
       IF ~Truthy(Get(locationData, "country")) \/ ~Truthy(Get(locationData, "city"))
       THEN Throw(Err("Error", "Missing required location fields"))
       ELSE Return(locationData)

\* a catch block without the branch for AbortError
CatchWarning_NoAbortBranch(i, error) ==
  LET name == LOCATION_PROVIDERS[i].name IN
  IF InstanceofError(error)
  THEN Console("warn", <<Str("Failed to fetch location from " \o name \o ":"),
                         Str(error.message)>>)
  ELSE Console("warn", <<Str("Unknown error fetching location from " \o name \o ":"), error>>)

\* fetchFromProvider's catch block: the warning logged for the thrown value
CatchWarning(i, error) ==
  LET name == LOCATION_PROVIDERS[i].name IN
  IF InstanceofError(error)
  THEN IF error.name = "AbortError"
       THEN Console("warn", <<Str("Location request to " \o name \o " timed out after "
                                   \o NatToString(REQUEST_TIMEOUT, 10) \o "ms")>>)
       ELSE Console("warn", <<Str("Failed to fetch location from " \o name \o ":"),
                              Str(error.message)>>)
  ELSE Console("warn", <<Str("Unknown error fetching location from " \o name \o ":"), error>>)

\* an attempt that also issues the request to the provider after it
StartAttempt_Both(i, timers1) ==
  /\ loc' = [pc |-> "fetching", idx |-> i, data |-> Undefined]
  /\ timers' = [timers1 EXCEPT ![i] = [armed |-> TRUE, deadline |-> now + REQUEST_TIMEOUT]]
  /\ fetches' = fetches \o <<LOCATION_PROVIDERS[i].url>>
                  \o (IF i < Len(LOCATION_PROVIDERS) THEN <<LOCATION_PROVIDERS[i + 1].url>> ELSE <<>>)

\* fetchFromProvider up to its await of fetch: a controller, its timer, the request
StartAttempt(i, timers1) ==
  /\ loc' = [pc |-> "fetching", idx |-> i, data |-> Undefined]
  /\ timers' = [timers1 EXCEPT ![i] = [armed |-> TRUE, deadline |-> now + REQUEST_TIMEOUT]]
  /\ fetches' = Append(fetches, LOCATION_PROVIDERS[i].url)

\* a loop that tries a provider again after a failed attempt, up to three requests
AfterAttempt_Retry(i, locationData, data, timers1, log1, calls1) ==
  /\ calls' = [calls1 EXCEPT !.fetchFromProvider = Append(@, Return(locationData))]
  /\ IF Truthy(locationData) /\ validateLocationData(locationData)
     THEN /\ log' = Append(log1, Console("log",
                      <<Str("Successfully retrieved location from " \o LOCATION_PROVIDERS[i].name)>>))
          /\ loc' = [pc |-> "done", idx |-> i, data |-> data]
          /\ locP' = Fulfilled(locationData)
          /\ timers' = timers1
          /\ UNCHANGED fetches
     ELSE IF Len(fetches) < 3
     THEN /\ log' = log1
          /\ StartAttempt(IF Len(fetches) = 1 THEN i ELSE Len(LOCATION_PROVIDERS), timers1)
          /\ UNCHANGED locP
     ELSE /\ log' = Append(log1, Console("warn",
                      <<Str("All location providers failed. Location data unavailable.")>>))
          /\ loc' = [pc |-> "done", idx |-> i, data |-> Undefined]
          /\ locP' = Fulfilled(Undefined)
          /\ timers' = timers1
          /\ UNCHANGED fetches

\* getLocation's loop once fetchFromProvider(provider i) has returned locationData
\* (undefined after a caught failure), having read the body data
AfterAttempt(i, locationData, data, timers1, log1, calls1) ==
  /\ calls' = [calls1 EXCEPT !.fetchFromProvider = Append(@, Return(locationData))]
  /\ IF Truthy(locationData) /\ validateLocationData(locationData)
     THEN /\ log' = Append(log1, Console("log",
                      <<Str("Successfully retrieved location from " \o LOCATION_PROVIDERS[i].name)>>))
          /\ loc' = [pc |-> "done", idx |-> i, data |-> data]
          /\ locP' = Fulfilled(locationData)
          /\ timers' = timers1
          /\ UNCHANGED fetches
     ELSE IF i < Len(LOCATION_PROVIDERS)
     THEN /\ log' = log1
          /\ StartAttempt(i + 1, timers1)
          /\ UNCHANGED locP
     ELSE /\ log' = Append(log1, Console("warn",
                      <<Str("All location providers failed. Location data unavailable.")>>))
          /\ loc' = [pc |-> "done", idx |-> i, data |-> Undefined]
          /\ locP' = Fulfilled(Undefined)
          /\ timers' = timers1
          /\ UNCHANGED fetches

\* an attempt whose catch block throws the error on: getLocation's promise rejects
AttemptFails_Rethrows(i, error, timers1) ==
  /\ loc' = [pc |-> "done", idx |-> i, data |-> Undefined]
  /\ locP' = [status |-> "rejected", value |-> error]
  /\ timers' = timers1
  /\ UNCHANGED <<fetches, calls, log>>

\* the attempt on provider i ends in fetchFromProvider's catch block with error
AttemptFails(i, error, timers1) ==
  AfterAttempt(i, Undefined, Undefined, timers1, Append(log, CatchWarning(i, error)),
               [calls EXCEPT !.caught = Append(@, [provider |-> i, error |-> error])])

(***************************************************************************)
(* The aggregator.                                                         *)
(***************************************************************************)
\* const { k = default } = options
Option(options, k, default) ==
  IF Get(options, k) = Undefined THEN default ELSE Get(options, k)

\* a record built with ipAddress: location.ip, which throws without a location
BuildMetadata_Unguarded(uaInfo, locationData, fingerprint) ==
  LET location == locationData.value
      fp == fingerprint.value
      base == ("ipAddress" :> Str("")) @@ uaInfo.v
      withFp == IF Truthy(fp) THEN ("fingerprint" :> fp) @@ base ELSE base
  IN  IF location \in {Null, Undefined}
      THEN Throw(Err("TypeError", "Cannot read properties of null (reading 'ip')"))
      ELSE Return(Obj(("location" :> location) @@ withFp))

\* a record built with fingerprint: fp, whatever fp is
BuildMetadata_FingerprintAlways(uaInfo, locationData, fingerprint) ==
  LET location == locationData.value
      withFp == ("fingerprint" :> fingerprint.value) @@ ("ipAddress" :> Str("")) @@ uaInfo.v
  IN  Return(Obj(IF Truthy(location) THEN ("location" :> location) @@ withFp ELSE withFp))

\* a record whose location keeps a coordinate only when it is truthy
BuildMetadata_TruthyCoordinates(uaInfo, locationData, fingerprint) ==
  LET location == IF locationData.status = "fulfilled" THEN locationData.value ELSE Null
      fp == IF fingerprint.status = "fulfilled" THEN fingerprint.value ELSE Undefined
      base == ("ipAddress" :> (IF Truthy(location) THEN Get(location, "ip") ELSE Str("")))
                @@ uaInfo.v
      withFp == IF Truthy(fp) THEN ("fingerprint" :> fp) @@ base ELSE base
      place == [country |-> Get(location, "country"), city |-> Get(location, "city")]
      withLat == IF Truthy(Get(location, "latitude"))
                 THEN ("latitude" :> Get(location, "latitude")) @@ place ELSE place
      withLon == IF Truthy(Get(location, "longitude"))
                 THEN ("longitude" :> Get(location, "longitude")) @@ withLat ELSE withLat
  IN  Return(Obj(IF Truthy(location) THEN ("location" :> Obj(withLon)) @@ withFp ELSE withFp))

\* collectMetadata, lines 65-86: the record built from uaInfo and the two
\* settled elements of Promise.allSettled
BuildMetadata(uaInfo, locationData, fingerprint) ==
  LET location == IF locationData.status = "fulfilled" THEN locationData.value ELSE Null
      fp == IF fingerprint.status = "fulfilled" THEN fingerprint.value ELSE Undefined
      base == ("ipAddress" :> (IF Truthy(location) THEN Get(location, "ip") ELSE Str("")))
                @@ uaInfo.v
      withFp == IF Truthy(fp) THEN ("fingerprint" :> fp) @@ base ELSE base
      place == [country |-> Get(location, "country"), city |-> Get(location, "city")]
      withLat == IF Get(location, "latitude") # Undefined
                 THEN ("latitude" :> Get(location, "latitude")) @@ place ELSE place
      withLon == IF Get(location, "longitude") # Undefined
                 THEN ("longitude" :> Get(location, "longitude")) @@ withLat ELSE withLat
  IN  Return(Obj(IF Truthy(location) THEN ("location" :> Obj(withLon)) @@ withFp ELSE withFp))

(***************************************************************************)
(* What the model draws its inputs from.                                   *)
(***************************************************************************)
UA_ChromeWindows ==
  "Mozilla/5.0 (Windows NT 10.0; Win64; x64) AppleWebKit/537.36 (KHTML, like Gecko) Chrome/91.0.4472.124 Safari/537.36"
UA_SafariIPad ==
  "Mozilla/5.0 (iPad; CPU OS 14_6 like Mac OS X) AppleWebKit/605.1.15 (KHTML, like Gecko) Version/14.0 Mobile/15E148 Safari/604.1"

Navigator(ua) ==
  Obj([userAgent |-> Str(ua), language |-> Str("en-US"),
       languages |-> Arr(<<Str("en-US"), Str("en")>>), platform |-> Str("Win32"),
       cookieEnabled |-> Bool(TRUE), doNotTrack |-> Null,
       hardwareConcurrency |-> Num(8), maxTouchPoints |-> Num(0),
       vendorSub |-> Str(""), productSub |-> Str("20030107")])

Screen == Obj([width |-> Num(1920), height |-> Num(1080), colorDepth |-> Num(24),
               pixelDepth |-> Num(24)])

Document == Obj([canvas |-> Str("data:image/png;base64,iVBORw0KGgo"),
                 webgl |-> Str("Intel Inc.~Intel Iris OpenGL Engine"),
                 fonts |-> Str("Arial,Courier New,Georgia")])

\* a page of a browser
PageEnv(ua) == [navigator |-> Navigator(ua), screen |-> Screen, document |-> Document,
                timezoneOffset |-> Num(-120)]
\* a worker of a browser: a navigator, but neither screen nor document
WorkerEnv(ua) == [navigator |-> Navigator(ua), screen |-> Undefined, document |-> Undefined,
                  timezoneOffset |-> Num(-120)]
\* a server-side runtime without the browser globals
ServerEnv == [navigator |-> Undefined, screen |-> Undefined, document |-> Undefined,
              timezoneOffset |-> Num(0)]

Environments == {PageEnv(UA_ChromeWindows), WorkerEnv(UA_SafariIPad), ServerEnv}

\* The environments getFingerprint is called in by itself: with or without
\* each global, with properties missing, with probes that throw or find nothing.
Navigators ==
  {Undefined, Navigator(UA_ChromeWindows), Navigator(UA_SafariIPad),
   Obj([userAgent |-> Str(UA_ChromeWindows), language |-> Str("en-US"),
        platform |-> Str("Win32"), cookieEnabled |-> Bool(FALSE)])}
Screens == {Undefined, Screen, Obj([width |-> Num(1920), height |-> Num(1080)])}
Documents ==
  {Undefined, Document,
   Obj([canvas |-> Str("throws"), webgl |-> Str("none"), fonts |-> Str("throws")]),
   Obj([canvas |-> Str("none"), webgl |-> Str("no-info"), fonts |-> Str("Arial")])}
FingerprintEnvironments ==
  {[navigator |-> n, screen |-> sc, document |-> d, timezoneOffset |-> Num(-120)] :
     n \in Navigators, sc \in Screens, d \in Documents}

\* how many calls of an exported function one run makes by itself
MaxCalls == 2

\* The user agents the classifier is given: "Mozilla/5.0 (<system>) <product>"
\* for the system and product parts of the user agents of uaParser.test.ts,
\* and the strings of its edge cases.
Systems ==
  {"Windows NT 10.0; Win64; x64", "Windows NT 6.3; Win64; x64",
   "Macintosh; Intel Mac OS X 10_15_7",
   "iPhone; CPU iPhone OS 14_6 like Mac OS X", "iPad; CPU OS 14_6 like Mac OS X",
   "Linux; Android 11; SM-G991B", "Linux; Android 11; SM-T870",
   "X11; Ubuntu; Linux x86_64; rv:89.0", "X11; CrOS x86_64 13904.77.0",
   "Unknown Platform"}

WebKit == "AppleWebKit/537.36 (KHTML, like Gecko) "

Products ==
  {WebKit \o "Chrome/91.0.4472.124 Safari/537.36",
   WebKit \o "Chrome/91.0.4472.124 Mobile Safari/537.36",
   WebKit \o "Chrome/91.0.4472.124 Safari/537.36 Edg/91.0.864.59",
   WebKit \o "Chrome/91.0.4472.124 Safari/537.36 OPR/77.0.4054.277",
   WebKit \o "Chrome/91.0.4472.124 Safari/537.36 Brave/91.1.26.74",
   WebKit \o "Chrome/91.0.4472.124 Safari/537.36 Vivaldi/4.0",
   WebKit \o "SamsungBrowser/14.2 Chrome/87.0.4280.141 Mobile Safari/537.36",
   "AppleWebKit/605.1.15 (KHTML, like Gecko) Version/14.1.1 Safari/605.1.15",
   "AppleWebKit/605.1.15 (KHTML, like Gecko) Version/14.0 Mobile/15E148 Safari/604.1",
   "Gecko/20100101 Firefox/89.0",
   "WebKit/537.36"}

EdgeCases ==
  {"", "Malformed UA String Without Standard Format", "UnknownBrowser/1.0"}

\* a user agent with the marker of Firefox and, after it, that of Safari
UA_FirefoxSafari ==
  "Mozilla/5.0 (X11; Ubuntu; Linux x86_64; rv:89.0) Gecko/20100101 Firefox/89.0 Safari/537.36"

UserAgents ==
  {"Mozilla/5.0 (" \o system \o ") " \o product : system \in Systems, product \in Products}
    \cup EdgeCases \cup {UA_FirefoxSafari}

\* the options objects collectMetadata is called with (an absent key reads undefined)
OptionsObject(l, f, t) ==
  Obj([includeLocation |-> l, includeFingerprint |-> f, locationTimeout |-> t])
Options ==
  {OptionsObject(Undefined, Undefined, Undefined),
   OptionsObject(Undefined, Bool(FALSE), Undefined),
   OptionsObject(Bool(TRUE), Undefined, Undefined),
   OptionsObject(Bool(TRUE), Bool(FALSE), Undefined),
   OptionsObject(Bool(TRUE), Bool(TRUE), Num(3000)),
   OptionsObject(Bool(FALSE), Bool(TRUE), Num(3000))}

\* what fetch resolves to or rejects with
Responses == {[ok |-> TRUE, status |-> 200, statusText |-> "OK"],
              [ok |-> FALSE, status |-> 404, statusText |-> "Not Found"]}
FetchErrors == {Err("TypeError", "Failed to fetch"), Str("String error")}
AbortError == Err("AbortError", "The operation was aborted")

\* what response.json() resolves to or rejects with: bodies in the field names
\* of ipapi.co and of ip-api.com, either of which either provider may be sent
Latitudes == {Undefined, Null, NaN, Num(-95), Num(-91), Num(-90), Num(0), Num(90), Num(91), Num(200)}
Longitudes == {Undefined, Str("2.35"), NaN, Num(-181), Num(-180), Num(0), Num(180), Num(181), Num(200)}
\* each coordinate's values beside a valid other one, and the pairs without one
Coordinates ==
  {<<la, Num(0)>> : la \in Latitudes} \cup {<<Num(0), lo>> : lo \in Longitudes}
    \cup {<<Undefined, Undefined>>, <<NaN, NaN>>, <<Num(-90), Num(180)>>, <<Num(90), Num(-180)>>,
          <<Num(-95), Num(200)>>}
FewCoordinates == {<<Undefined, Undefined>>, <<Num(0), Num(0)>>, <<Num(91), Num(0)>>}
Cities == {Undefined, Str(""), Str("Paris")}
IpapiBodies(coordinates) ==
  {Obj([ip |-> Str("203.0.113.7"), country_name |-> cn, country |-> c, city |-> ct,
        latitude |-> ll[1], longitude |-> ll[2]]) :
     cn \in {Undefined, Str("France")}, c \in {Undefined, Str("FR")},
     ct \in Cities, ll \in coordinates}
IpApiComBodies(coordinates) ==
  {Obj([query |-> Str("203.0.113.7"), country |-> c, city |-> ct,
        lat |-> ll[1], lon |-> ll[2]]) :
     c \in {Undefined, Str("France")}, ct \in Cities, ll \in coordinates}
\* the bodies provider i may answer with: every one in its own field names, a
\* few in the other provider's, and some that are no object
Bodies(i) ==
  {Null, Num(42), Str("rate limited")}
    \cup (IF i = 1 THEN IpapiBodies(Coordinates) \cup IpApiComBodies(FewCoordinates)
          ELSE IpApiComBodies(Coordinates) \cup IpapiBodies(FewCoordinates))
BodyErrors == {Err("SyntaxError", "Unexpected token < in JSON at position 0")}

\* the timeoutMs getLocationWithTimeout is called with
Timeouts == {3000, 8000}

\* the clock's step, and where the model stops it
TickMs == 2500
MaxTime == 11000

Providers == 1..Len(LOCATION_PROVIDERS)

(***************************************************************************)
(* The state machine.                                                      *)
(***************************************************************************)
NoPromise == [status |-> "none", value |-> Undefined]

\* a collectMetadata call that has not been made
NoCall ==
  [opts |-> Undefined,
   cm |-> [pc |-> "idle", uaInfo |-> Undefined, promise |-> NoPromise],
   locP |-> NoPromise,
   fpP |-> NoPromise,
   loc |-> [pc |-> "idle", idx |-> 0, data |-> Undefined],
   timers |-> [i \in Providers |-> [armed |-> FALSE, deadline |-> 0]],
   aborted |-> [i \in Providers |-> FALSE],
   fetches |-> <<>>,
   calls |-> [parseUserAgent |-> <<>>, getFingerprint |-> <<>>, comprehensive |-> <<>>,
              fetchFromProvider |-> <<>>, caught |-> <<>>],
   caller |-> 0]

\* the component before it is mounted
NotMounted ==
  [pc |-> "unmounted", options |-> Undefined, metadata |-> Null, loading |-> FALSE,
   error |-> Null, collections |-> 0, inFlight |-> {}]

\* nothing has been called yet
Idle ==
  /\ opts = Undefined
  /\ now = 0
  /\ cm = [pc |-> "idle", uaInfo |-> Undefined, promise |-> NoPromise]
  /\ locP = NoPromise
  /\ fpP = NoPromise
  /\ loc = [pc |-> "idle", idx |-> 0, data |-> Undefined]
  /\ timers = [i \in Providers |-> [armed |-> FALSE, deadline |-> 0]]
  /\ aborted = [i \in Providers |-> FALSE]
  /\ fetches = <<>>
  /\ calls = [parseUserAgent |-> <<>>, getFingerprint |-> <<>>, comprehensive |-> <<>>,
              fetchFromProvider |-> <<>>, caught |-> <<>>]
  /\ race = [pc |-> "idle", timeoutMs |-> 0, promise |-> NoPromise,
             timer |-> [armed |-> FALSE, deadline |-> 0]]
  /\ log = <<>>
  /\ caller = 0
  /\ other = NoCall
  /\ hook = NotMounted

Init ==
  /\ env \in Environments
  /\ Idle

\* collectMetadata starting its two tasks before it calls the classifier
collectMetadata_TasksFirst(options) ==
  /\ calls' = [calls EXCEPT !.parseUserAgent = Append(@, parseUserAgent(env))]
  /\ LET includeLocation == Option(options, "includeLocation", Bool(FALSE))
           includeFingerprint == Option(options, "includeFingerprint", Bool(TRUE))
           uaInfo == calls'.parseUserAgent[1]
       IN
       /\ opts' = options
       /\ IF Truthy(includeLocation)
          THEN /\ StartAttempt(1, timers)
               /\ locP' = Pending
          ELSE /\ locP' = Fulfilled(Null)
               /\ UNCHANGED <<loc, timers, fetches>>
       /\ fpP' = IF Truthy(includeFingerprint) THEN Pending ELSE Fulfilled(Undefined)
       /\ cm' = IF uaInfo.thrown
                THEN [pc |-> "done", uaInfo |-> Undefined, promise |-> Rejected(uaInfo.value)]
                ELSE [pc |-> "awaiting", uaInfo |-> uaInfo.value, promise |-> Pending]

\* collectMetadata starting both tasks whatever the options say
collectMetadata_BothAlways(options) ==
  /\ calls' = [calls EXCEPT !.parseUserAgent = Append(@, parseUserAgent(env))]
  /\ LET uaInfo == calls'.parseUserAgent[1] IN
       /\ opts' = options
       /\ IF uaInfo.thrown
          THEN /\ cm' = [pc |-> "done", uaInfo |-> Undefined, promise |-> Rejected(uaInfo.value)]
               /\ UNCHANGED <<locP, fpP, loc, timers, fetches>>
          ELSE /\ cm' = [pc |-> "awaiting", uaInfo |-> uaInfo.value, promise |-> Pending]
               /\ StartAttempt(1, timers)
               /\ locP' = Pending
               /\ fpP' = Pending

\* collectMetadata(options) up to its await: the options, the classifier, then
\* the two elements of Promise.allSettled (getLocation runs to its first await)
collectMetadata(options) ==
  /\ calls' = [calls EXCEPT !.parseUserAgent = Append(@, parseUserAgent(env))]
  /\ LET includeLocation == Option(options, "includeLocation", Bool(FALSE))
           includeFingerprint == Option(options, "includeFingerprint", Bool(TRUE))
           uaInfo == calls'.parseUserAgent[1]
       IN
       /\ opts' = options
       /\ IF uaInfo.thrown
          THEN /\ cm' = [pc |-> "done", uaInfo |-> Undefined, promise |-> Rejected(uaInfo.value)]
               /\ UNCHANGED <<locP, fpP, loc, timers, fetches>>
          ELSE /\ cm' = [pc |-> "awaiting", uaInfo |-> uaInfo.value, promise |-> Pending]
               /\ IF Truthy(includeLocation)
                  THEN /\ StartAttempt(1, timers)
                       /\ locP' = Pending
                  ELSE /\ locP' = Fulfilled(Null)
                       /\ UNCHANGED <<loc, timers, fetches>>
               /\ fpP' = IF Truthy(includeFingerprint) THEN Pending ELSE Fulfilled(Undefined)

\* the application calls collectMetadata(options)
Call ==
  /\ cm.pc = "idle"
  /\ race.pc = "idle"
  /\ \E options \in Options : collectMetadata(options)
  /\ UNCHANGED <<caller, other, hook, env, now, aborted, race, log>>

\* getLocationWithTimeout(timeoutMs) up to its return of Promise.race: getLocation
\* runs to its first await, and the timer of the second promise is set
CallWithTimeout ==
  /\ cm.pc = "idle"
  /\ race.pc = "idle"
  /\ \E timeoutMs \in Timeouts :
       race' = [pc |-> "racing", timeoutMs |-> timeoutMs, promise |-> Pending,
                timer |-> [armed |-> TRUE, deadline |-> now + timeoutMs]]
  /\ StartAttempt(1, timers)
  /\ locP' = Pending
  /\ UNCHANGED <<caller, other, hook, env, opts, now, cm, fpP, aborted, calls, log>>

\* the reaction of Promise.race to getLocation's promise: the first settlement
\* settles the race, a later one changes nothing
RaceSettles ==
  /\ race.pc = "racing"
  /\ locP.status \in {"fulfilled", "rejected"}
  /\ race' = [race EXCEPT !.pc = "done",
                          !.promise = IF @.status = "pending" THEN locP ELSE @]
  /\ UNCHANGED <<caller, other, hook, env, opts, now, cm, locP, fpP, loc, timers, aborted, fetches, calls, log>>

\* the job of Promise.resolve().then(...): getFingerprint(false) in its try
FingerprintJob ==
  /\ cm.pc = "awaiting"
  /\ fpP.status = "pending"
  /\ calls' = [calls EXCEPT !.getFingerprint = Append(@, getFingerprint(env, FALSE)),
                            !.comprehensive = Append(@, FALSE)]
  /\ LET r == calls'.getFingerprint[1] IN
     IF r.thrown
     THEN /\ log' = Append(log, Console("warn", <<Str("Failed to generate fingerprint:"), r.value>>))
          /\ fpP' = Fulfilled(Undefined)
     ELSE /\ log' = log
          /\ fpP' = Fulfilled(r.value)
  /\ UNCHANGED <<caller, other, hook, env, opts, now, cm, locP, loc, timers, aborted, fetches, race>>

\* an await that continues as soon as one of the two elements has settled, the
\* other one read as it is
Settle_WhenEither ==
  /\ cm.pc = "awaiting"
  /\ locP.status \in {"fulfilled", "rejected"} \/ fpP.status \in {"fulfilled", "rejected"}
  /\ LET metadata == BuildMetadata(cm.uaInfo, locP, fpP) IN
     cm' = [cm EXCEPT !.pc = "done",
                      !.promise = IF metadata.thrown THEN Rejected(metadata.value)
                                  ELSE Fulfilled(metadata.value)]
  /\ UNCHANGED <<caller, other, hook, env, opts, now, locP, fpP, loc, timers, aborted, fetches, calls, race, log>>

\* the await of Promise.allSettled continues, both elements having settled: the
\* record is built and returned (the promise of an async function rejects with
\* what its body throws)
Settle ==
  /\ cm.pc = "awaiting"
  /\ locP.status \in {"fulfilled", "rejected"}
  /\ fpP.status \in {"fulfilled", "rejected"}
  /\ LET metadata == BuildMetadata(cm.uaInfo, locP, fpP) IN
     cm' = [cm EXCEPT !.pc = "done",
                      !.promise = IF metadata.thrown THEN Rejected(metadata.value)
                                  ELSE Fulfilled(metadata.value)]
  /\ UNCHANGED <<caller, other, hook, env, opts, now, locP, fpP, loc, timers, aborted, fetches, calls, race, log>>

\* The event loop runs a job of the promise queue (the fingerprint job, the
\* continuation of the await) before it takes the next event or lets time pass.
JobQueued ==
  \/ /\ cm.pc = "awaiting"
     /\ \/ fpP.status = "pending"
        \/ locP.status \in {"fulfilled", "rejected"} /\ fpP.status \in {"fulfilled", "rejected"}
  \/ race.pc = "racing" /\ locP.status \in {"fulfilled", "rejected"}

\* the request of the current attempt resolves with a response: the timer is
\* cleared, the status checked, and the body is awaited
FetchResolved ==
  /\ loc.pc = "fetching"
  /\ \E response \in Responses :
       LET i == loc.idx
           timers1 == [timers EXCEPT ![i].armed = FALSE]
           checked == CheckResponse(response)
       IN
       IF checked.thrown
       THEN AttemptFails(i, checked.value, timers1)
       ELSE /\ loc' = [loc EXCEPT !.pc = "reading"]
            /\ timers' = timers1
            /\ UNCHANGED <<locP, fetches, calls, log>>
  /\ UNCHANGED <<caller, other, hook, env, opts, now, cm, fpP, aborted, race>>

\* the request of the current attempt resolves, once no job of the promise queue is waiting
FetchResolves ==
  /\ ~JobQueued
  /\ FetchResolved

\* the request of the current attempt rejects (its timer stays set)
FetchRejected ==
  /\ loc.pc = "fetching"
  /\ \E error \in FetchErrors : AttemptFails(loc.idx, error, timers)
  /\ UNCHANGED <<caller, other, hook, env, opts, now, cm, fpP, aborted, race>>

\* the request of the current attempt rejects, once no job of the promise queue is waiting
FetchRejects ==
  /\ ~JobQueued
  /\ FetchRejected

\* response.json() resolves: the body is checked, translated and returned
BodyResolved ==
  /\ loc.pc = "reading"
  /\ \E data \in Bodies(loc.idx) :
       LET parsed == ParseBody(loc.idx, data) IN
       IF parsed.thrown
       THEN AttemptFails(loc.idx, parsed.value, timers)
       ELSE AfterAttempt(loc.idx, parsed.value, data, timers, log, calls)
  /\ UNCHANGED <<caller, other, hook, env, opts, now, cm, fpP, aborted, race>>

\* response.json() resolves, once no job of the promise queue is waiting
BodyResolves ==
  /\ ~JobQueued
  /\ BodyResolved

\* response.json() rejects
BodyRejects ==
  /\ ~JobQueued
  /\ loc.pc = "reading"
  /\ \E error \in BodyErrors : AttemptFails(loc.idx, error, timers)
  /\ UNCHANGED <<caller, other, hook, env, opts, now, cm, fpP, aborted, race>>

\* the timer of attempt i fires: controller.abort(), which rejects the request
\* with an AbortError if it is still in flight
TimerFires(i) ==
  /\ ~JobQueued
  /\ timers[i].armed
  /\ timers[i].deadline <= now
  /\ aborted' = [aborted EXCEPT ![i] = TRUE]
  /\ LET timers1 == [timers EXCEPT ![i].armed = FALSE] IN
     IF loc.pc = "fetching" /\ loc.idx = i
     THEN AttemptFails(i, AbortError, timers1)
     ELSE /\ timers' = timers1
          /\ UNCHANGED <<loc, locP, fetches, calls, log>>
  /\ UNCHANGED <<caller, other, hook, env, opts, now, cm, fpP, race>>

\* a timer callback that rejects the second promise of the race
RaceTimerFires_Rejects ==
  /\ race.timer.armed
  /\ race.timer.deadline <= now
  /\ log' = Append(log, [level |-> "warn",
               args |-> <<Str("Location request timed out after " \o NatToString(race.timeoutMs, 10) \o "ms")>>])
  /\ race' = [race EXCEPT !.pc = IF @ = "racing" THEN "done" ELSE @,
                          !.promise = IF @.status = "pending"
                                      THEN [status |-> "rejected", value |-> Undefined] ELSE @,
                          !.timer.armed = FALSE]
  /\ UNCHANGED <<caller, other, hook, env, opts, now, cm, locP, fpP, loc, timers, aborted, fetches, calls>>

\* the timer of getLocationWithTimeout fires: the warning, and resolve(undefined),
\* which settles the race unless getLocation has
RaceTimerFires ==
  /\ ~JobQueued
  /\ race.timer.armed
  /\ race.timer.deadline <= now
  /\ log' = Append(log, Console("warn",
               <<Str("Location request timed out after " \o NatToString(race.timeoutMs, 10) \o "ms")>>))
  /\ race' = [race EXCEPT !.pc = IF @ = "racing" THEN "done" ELSE @,
                          !.promise = IF @.status = "pending" THEN Fulfilled(Undefined) ELSE @,
                          !.timer.armed = FALSE]
  /\ UNCHANGED <<caller, other, hook, env, opts, now, cm, locP, fpP, loc, timers, aborted, fetches, calls>>

\* the deadlines of the timers that are set
Deadlines ==
  {timers[i].deadline : i \in {j \in Providers : timers[j].armed}}
    \cup (IF race.timer.armed THEN {race.timer.deadline} ELSE {})

TimerDue == \E d \in Deadlines : d <= now

Min(a, b) == IF a <= b THEN a ELSE b

\* the next instant the clock shows: a step later, or the first timer due before
NextInstant ==
  LET step == now + TickMs
  IN  IF Deadlines = {} THEN step
      ELSE Min(step, CHOOSE d \in Deadlines : \A d2 \in Deadlines : d <= d2)

\* time passes while the call or a timer is pending; a due timer fires first
Tick ==
  /\ ~JobQueued
  /\ cm.pc = "awaiting" \/ race.pc = "racing" \/ Deadlines # {}
  /\ ~TimerDue
  /\ now < MaxTime
  /\ now' = NextInstant
  /\ UNCHANGED <<caller, other, hook, env, opts, cm, locP, fpP, loc, timers, aborted, fetches, calls, race, log>>

\* getFingerprint(comprehensive), called by itself
CallGetFingerprint ==
  /\ cm.pc = "idle"
  /\ race.pc = "idle"
  /\ Len(calls.getFingerprint) < MaxCalls
  /\ \E comprehensive \in BOOLEAN :
       calls' = [calls EXCEPT !.getFingerprint = Append(@, getFingerprint(env, comprehensive)),
                              !.comprehensive = Append(@, comprehensive)]
  /\ UNCHANGED <<caller, other, hook, env, opts, now, cm, locP, fpP, loc, timers, aborted, fetches, race, log>>

\* time passes between two calls
Later ==
  /\ cm.pc = "idle"
  /\ race.pc = "idle"
  /\ now < MaxTime
  /\ now' = now + TickMs
  /\ UNCHANGED <<caller, other, hook, env, opts, cm, locP, fpP, loc, timers, aborted, fetches, calls, race, log>>

Next ==
  \/ Call
  \/ CallWithTimeout
  \/ FingerprintJob
  \/ Settle
  \/ RaceSettles
  \/ FetchResolves
  \/ FetchRejects
  \/ BodyResolves
  \/ BodyRejects
  \/ \E i \in Providers : TimerFires(i)
  \/ RaceTimerFires
  \/ Tick

Spec == Init /\ [][Next]_vars

(***************************************************************************)
(* Two collectMetadata calls whose steps interleave.  The variables opts,  *)
(* cm, locP, fpP, loc, timers, aborted, fetches, calls and caller are the  *)
(* locals and closures of the call whose step runs next, other holds those *)
(* of the call that waits meanwhile; the globals, the clock and the        *)
(* console are common to both.  A step of the waiting call may run where   *)
(* the event loop would have taken a job of the running call first: the    *)
(* interleavings of the model include those of the event loop.             *)
(***************************************************************************)
\* the locals of the call whose step runs next
Running ==
  [opts |-> opts, cm |-> cm, locP |-> locP, fpP |-> fpP, loc |-> loc, timers |-> timers,
   aborted |-> aborted, fetches |-> fetches, calls |-> calls, caller |-> caller]

\* a switch between two calls that keep the promise of getLocation in one
\* place, common to both
Switch_SharedLocation ==
  /\ race.pc = "idle"
  /\ cm.pc # "idle"
  /\ other.cm.pc # "done"
  /\ other' = Running
  /\ opts' = other.opts
  /\ cm' = other.cm
  /\ locP' = locP
  /\ fpP' = other.fpP
  /\ loc' = other.loc
  /\ timers' = other.timers
  /\ aborted' = other.aborted
  /\ fetches' = other.fetches
  /\ calls' = other.calls
  /\ caller' = other.caller
  /\ UNCHANGED <<hook, env, now, race, log>>

\* the next step is one of the other call: a call not made yet, which the
\* application now makes, or a continuation of a call that waits
Switch ==
  /\ race.pc = "idle"
  /\ cm.pc # "idle"
  /\ other.cm.pc # "done"
  /\ other' = Running
  /\ opts' = other.opts
  /\ cm' = other.cm
  /\ locP' = other.locP
  /\ fpP' = other.fpP
  /\ loc' = other.loc
  /\ timers' = other.timers
  /\ aborted' = other.aborted
  /\ fetches' = other.fetches
  /\ calls' = other.calls
  /\ caller' = other.caller
  /\ UNCHANGED <<hook, env, now, race, log>>

\* the options and the provider answers of the interleaved calls: a sample of
\* Options; of the failures a rejected or aborted request; of the bodies those
\* of France, with and without coordinates
ConcurrentOptions ==
  {OptionsObject(Undefined, Undefined, Undefined),
   OptionsObject(Bool(TRUE), Undefined, Undefined)}

\* where the clock of the interleaved calls stops
ConcurrentMaxTime == 5000

\* the answers of the providers that are followed up
SampledAnswers ==
  /\ \A n \in 1..Len(log) :
       Len(log[n].args) = 2 => log[n].args[2] = Str("Failed to fetch") \/ log[n].args[2].t = "error"
  /\ \A n \in 1..Len(calls.fetchFromProvider) :
       LET locationData == calls.fetchFromProvider[n].value IN
       \/ locationData = Undefined
       \/ /\ <<Get(locationData, "latitude"), Get(locationData, "longitude")>>
                \in {<<Undefined, Undefined>>, <<Num(0), Num(0)>>}
          /\ Get(locationData, "country") = Str("France")

Sampled ==
  /\ opts \in ConcurrentOptions \cup {Undefined}
  /\ SampledAnswers

\* no timer of the waiting call is passed over by the clock
WaitingTimersKept ==
  /\ now <= ConcurrentMaxTime
  /\ \A i \in Providers : other.timers[i].armed => now <= other.timers[i].deadline

NextConcurrent ==
  \/ Call /\ Sampled'
  \/ Switch
  \/ FingerprintJob
  \/ Settle
  \/ FetchResolves /\ Sampled'
  \/ FetchRejects /\ Sampled'
  \/ BodyResolves /\ Sampled'
  \/ \E i \in Providers : TimerFires(i)
  \/ Tick /\ WaitingTimersKept'

SpecConcurrent == Init /\ [][NextConcurrent]_vars

(***************************************************************************)
(* The hook useClientMetadata(options) in a component: its three state     *)
(* slots, the effect that runs once after the component is mounted, and    *)
(* collectData, which awaits collectMetadata.                              *)
(***************************************************************************)
\* the options objects the hook is given (an absent key reads undefined)
HookOptionsObject(l, i) == Obj([includeLocation |-> l, immediate |-> i])
HookOptions ==
  {HookOptionsObject(Undefined, Undefined),
   HookOptionsObject(Bool(TRUE), Undefined),
   HookOptionsObject(Bool(TRUE), Bool(TRUE)),
   HookOptionsObject(Undefined, Bool(FALSE))}

\* const { immediate = true } = options
immediate == Option(hook.options, "immediate", Bool(TRUE))

\* the first render: the options are read and the state slots get their
\* initial values
Mount ==
  /\ hook.pc = "unmounted"
  /\ cm.pc = "idle"
  /\ race.pc = "idle"
  /\ \E options \in HookOptions :
       hook' = [pc |-> "mounted", options |-> options, metadata |-> Null,
                loading |-> Truthy(Option(options, "immediate", Bool(TRUE))),
                error |-> Null, collections |-> 0, inFlight |-> {}]
  /\ UNCHANGED <<caller, other, env, opts, now, cm, locP, fpP, loc, timers, aborted, fetches,
                 calls, race, log>>

\* collectData() up to its await: setLoading(true), setError(null) and the
\* call of collectMetadata with the three options, defaults filled in
collectData ==
  /\ hook' = [hook EXCEPT !.loading = TRUE, !.error = Null, !.collections = @ + 1,
                          !.inFlight = @ \cup {hook.collections + 1}, !.pc = "effected"]
  /\ caller' = hook.collections + 1
  /\ collectMetadata(OptionsObject(Option(hook.options, "includeLocation", Bool(FALSE)),
                                   Option(hook.options, "includeFingerprint", Bool(TRUE)),
                                   Option(hook.options, "locationTimeout", Num(2000))))

\* the effect, once after the first render: collectData() if immediate
Effect ==
  /\ hook.pc = "mounted"
  /\ IF Truthy(immediate)
     THEN /\ collectData
          /\ UNCHANGED <<other, env, now, aborted, race, log>>
     ELSE /\ hook' = [hook EXCEPT !.pc = "effected"]
          /\ UNCHANGED <<caller, other, env, opts, now, cm, locP, fpP, loc, timers, aborted,
                         fetches, calls, race, log>>

\* collectData whose finally block is left out when collectMetadata rejects
CollectDataContinues_NoFinally ==
  /\ cm.pc = "done"
  /\ caller \in hook.inFlight
  /\ IF cm.promise.status = "fulfilled"
     THEN /\ hook' = [hook EXCEPT !.metadata = cm.promise.value, !.loading = FALSE,
                                  !.inFlight = @ \ {caller}]
          /\ log' = log
     ELSE LET err == cm.promise.value
              errorMessage == IF InstanceofError(err) THEN Str(err.message)
                              ELSE Str("Unknown error occurred")
          IN  /\ log' = Append(log, Console("warn", <<Str("Failed to collect client metadata:"), err>>))
              /\ hook' = [hook EXCEPT !.error = errorMessage, !.metadata = Null,
                                      !.inFlight = @ \ {caller}]
  /\ UNCHANGED <<caller, other, env, opts, now, cm, locP, fpP, loc, timers, aborted, fetches,
                 calls, race>>

\* collectData after its await: setMetadata(data), or in the catch block the
\* warning, setError(errorMessage) and setMetadata(null); then setLoading(false)
CollectDataContinues ==
  /\ cm.pc = "done"
  /\ caller \in hook.inFlight
  /\ IF cm.promise.status = "fulfilled"
     THEN /\ hook' = [hook EXCEPT !.metadata = cm.promise.value, !.loading = FALSE,
                                  !.inFlight = @ \ {caller}]
          /\ log' = log
     ELSE LET err == cm.promise.value
              errorMessage == IF InstanceofError(err) THEN Str(err.message)
                              ELSE Str("Unknown error occurred")
          IN  /\ log' = Append(log, Console("warn", <<Str("Failed to collect client metadata:"), err>>))
              /\ hook' = [hook EXCEPT !.error = errorMessage, !.metadata = Null,
                                      !.loading = FALSE, !.inFlight = @ \ {caller}]
  /\ UNCHANGED <<caller, other, env, opts, now, cm, locP, fpP, loc, timers, aborted, fetches,
                 calls, race>>

NextHook ==
  \/ Mount
  \/ Effect
  \/ CollectDataContinues
  \/ FingerprintJob
  \/ Settle
  \/ FetchResolves
  \/ FetchRejects
  \/ BodyResolves
  \/ BodyRejects
  \/ \E i \in Providers : TimerFires(i)
  \/ Tick

SpecHook == Init /\ [][NextHook]_vars

\* refetch(): collectData() called again by the component, while the
\* collection before it is still in flight or after it has settled (the
\* locals of the new collectMetadata call are those of a call not yet made)
Refetch ==
  /\ hook.pc = "effected"
  /\ cm.pc = "idle"
  /\ collectData
  /\ UNCHANGED <<other, env, now, aborted, race, log>>

\* collectData is waiting to continue after the call that has settled
ContinuationQueued == cm.pc = "done" /\ caller \in hook.inFlight

\* The hook with refetch: two collections at most, whose steps interleave as
\* the event loop lets them.  The jobs of the promise queue (the fingerprint
\* job, the continuations of collectMetadata and of collectData) run before
\* the next event, be it a refetch of the component or an answer to the other
\* collection.
NextRefetch ==
  \/ Mount
  \/ Effect
  \/ Refetch /\ SampledAnswers'
  \/ Switch /\ ~JobQueued /\ ~ContinuationQueued
  \/ CollectDataContinues
  \/ FingerprintJob
  \/ Settle
  \/ FetchResolves /\ SampledAnswers'
  \/ FetchRejects /\ SampledAnswers'
  \/ BodyResolves /\ SampledAnswers'
  \/ \E i \in Providers : TimerFires(i)
  \/ Tick /\ WaitingTimersKept'

SpecRefetch == Init /\ [][NextRefetch]_vars

\* getFingerprint by itself, in each of the environments
InitFingerprint ==
  /\ env \in FingerprintEnvironments
  /\ Idle

NextFingerprint ==
  \/ CallGetFingerprint
  \/ Later

SpecFingerprint == InitFingerprint /\ [][NextFingerprint]_vars

\* The classifier on its own: parseUserAgent() is called in a page whose
\* navigator reports one of the user agents.
InitClassifier ==
  /\ env \in {PageEnv(ua) : ua \in UserAgents}
  /\ Idle

CallParseUserAgent ==
  /\ cm.pc = "idle"
  /\ race.pc = "idle"
  /\ Len(calls.parseUserAgent) < MaxCalls
  /\ calls' = [calls EXCEPT !.parseUserAgent = Append(@, parseUserAgent(env))]
  /\ UNCHANGED <<caller, other, hook, env, opts, now, cm, locP, fpP, loc, timers, aborted, fetches, race, log>>

NextClassifier == CallParseUserAgent

SpecClassifier == InitClassifier /\ [][NextClassifier]_vars

\* The event loop keeps running: the reaction of the race runs, a timer that
\* is due fires, and the clock goes on.  (That a request is ever answered is
\* not assumed.)
LiveSpec ==
  /\ Spec
  /\ WF_vars(RaceSettles)
  /\ \A i \in Providers : WF_vars(TimerFires(i))
  /\ WF_vars(RaceTimerFires)
  /\ WF_vars(Tick)

(***************************************************************************)
(* What the properties below are stated with.                              *)
(***************************************************************************)
\* the options of the collectMetadata call, once it is made
Called == opts # Undefined
includeLocation == Called /\ Truthy(Option(opts, "includeLocation", Bool(FALSE)))
includeFingerprint == Called /\ Truthy(Option(opts, "includeFingerprint", Bool(TRUE)))
locationTimeout == Option(opts, "locationTimeout", Num(2000)).v

Resolved == cm.pc = "done" /\ cm.promise.status = "fulfilled"
Has(o, k) == k \in DOMAIN o.v

\* what the calls of a function that threw have thrown
Thrown(f) == {calls[f][n] : n \in {m \in 1..Len(calls[f]) : calls[f][m].thrown}}

\* what the calls of a function that returned have returned
Returned(f) == {calls[f][n] : n \in {m \in 1..Len(calls[f]) : ~calls[f][m].thrown}}

\* a location record with a non-empty country and city, and either no
\* coordinates or both, each a number within its range
WellFormed(r) ==
  /\ Typeof(r) = "object"
  /\ \A k \in {"country", "city"} : Has(r, k) /\ r.v[k] \notin {Undefined, Null, Str("")}
  /\ LET latitude == Get(r, "latitude")
         longitude == Get(r, "longitude")
     IN  \/ latitude = Undefined /\ longitude = Undefined
         \/ /\ Typeof(latitude) = "number" /\ ~latitude.nan
            /\ Typeof(longitude) = "number" /\ ~longitude.nan
            /\ -90 <= latitude.v /\ latitude.v <= 90
            /\ -180 <= longitude.v /\ longitude.v <= 180

\* the console calls of a level whose first argument is, or contains, a text
Logged(level, text) ==
  {n \in 1..Len(log) : log[n].level = level /\ log[n].args[1] = Str(text)}
LoggedWith(level, text) ==
  {n \in 1..Len(log) : log[n].level = level /\ Contains(log[n].args[1].v, text)}

FingerprintWarning == "Failed to generate fingerprint:"
AllFailedWarning == "All location providers failed. Location data unavailable."

\* getLocation has returned, and with a record
LocationDone == loc.pc = "done" /\ locP.status = "fulfilled"
LocationFound == LocationDone /\ locP.value # Undefined

(***************************************************************************)
(* C1.  The promise of collectMetadata rejects exactly when parseUserAgent *)
(* throws, and then with the error it threw; when parseUserAgent returns,  *)
(* the promise never rejects and the finished call has fulfilled, however  *)
(* fingerprinting and geolocation went.                                    *)
(***************************************************************************)
C1_RejectsOnlyOnClassifier ==
  /\ cm.promise.status = "rejected" => calls.parseUserAgent = <<Throw(cm.promise.value)>>
  /\ cm.pc = "done" => \A uaInfo \in Thrown("parseUserAgent") : cm.promise = Rejected(uaInfo.value)
  /\ cm.pc = "done" /\ Thrown("parseUserAgent") = {} => cm.promise.status = "fulfilled"

\* fulfilled although the fingerprint threw and every provider failed
C1_Witness ==
  /\ Resolved
  /\ Logged("warn", FingerprintWarning) # {}
  /\ Logged("warn", AllFailedWarning) # {}

(***************************************************************************)
(* C2.  When getFingerprint throws, the record has no fingerprint key, its *)
(* userAgent, browser, platform and deviceType are what parseUserAgent     *)
(* returned, and one warning 'Failed to generate fingerprint:' was logged. *)
(***************************************************************************)
C2_FingerprintFailureOmitsKey ==
  Resolved /\ Thrown("getFingerprint") # {} =>
    /\ ~Has(cm.promise.value, "fingerprint")
    /\ \A k \in {"userAgent", "browser", "platform", "deviceType"} :
         /\ Has(cm.promise.value, k)
         /\ cm.promise.value.v[k] = calls.parseUserAgent[1].value.v[k]
    /\ Cardinality(Logged("warn", FingerprintWarning)) = 1
    /\ \A n \in Logged("warn", FingerprintWarning) :
         Throw(log[n].args[2]) \in Thrown("getFingerprint")

\* a record delivered after the fingerprint threw, beside a location
C2_Witness ==
  /\ Resolved
  /\ Thrown("getFingerprint") # {}
  /\ Has(cm.promise.value, "location")
  /\ cm.promise.value.v["deviceType"] = Str("tablet")

(***************************************************************************)
(* C3.  In a delivered record the fingerprint key is present exactly when  *)
(* fingerprinting was enabled and produced a value, the location key       *)
(* exactly when geolocation was enabled and returned a record, and no key  *)
(* of the record or of its location holds null or undefined.               *)
(***************************************************************************)
C3_KeysPresentNeverEmpty ==
  Resolved =>
    LET metadata == cm.promise.value IN
    /\ Has(metadata, "fingerprint") <=>
         includeFingerprint /\ \E r \in Returned("getFingerprint") : Truthy(r.value)
    /\ Has(metadata, "location") <=> includeLocation /\ LocationFound
    /\ \A k \in DOMAIN metadata.v : metadata.v[k] \notin {Null, Undefined}
    /\ Has(metadata, "location") =>
         \A k \in DOMAIN metadata.v["location"].v :
           metadata.v["location"].v[k] \notin {Null, Undefined}

(***************************************************************************)
(* C4.  ipAddress of a delivered record is a string: the ip of the         *)
(* location record when geolocation succeeded, the empty string otherwise. *)
(***************************************************************************)
C4_IpAddressIsString ==
  Resolved =>
    LET ipAddress == Get(cm.promise.value, "ipAddress") IN
    /\ Typeof(ipAddress) = "string"
    /\ includeLocation /\ LocationFound => ipAddress = Get(locP.value, "ip")
    /\ ~(includeLocation /\ LocationFound) => ipAddress = Str("")

(***************************************************************************)
(* C5.  Called with no options, collectMetadata delivers a record that has *)
(* a fingerprint key, has no location key, and whose ipAddress is "".      *)
(***************************************************************************)
C5_DefaultConfiguration ==
  Resolved /\ opts = OptionsObject(Undefined, Undefined, Undefined) =>
    /\ Has(cm.promise.value, "fingerprint")
    /\ ~Has(cm.promise.value, "location")
    /\ Get(cm.promise.value, "ipAddress") = Str("")

(***************************************************************************)
(* C6.  With geolocation enabled, collectMetadata does not wait longer     *)
(* than locationTimeout ms (2000 unless given): past that time, the call   *)
(* is no longer pending.                                                   *)
(***************************************************************************)
C6_LocationTimeoutBoundsWait ==
  cm.pc = "awaiting" /\ includeLocation => now <= locationTimeout

(***************************************************************************)
(* C7.  getLocation requests the providers in their declared order, ipapi.co *)
(* then ip-api.com, and requests none after the one that gave a valid      *)
(* record: one request only when that was the first.                       *)
(***************************************************************************)
C7_ProvidersInOrder ==
  LET urls == <<"https://ipapi.co/json/", "http://ip-api.com/json/">> IN
  /\ Len(fetches) <= Len(urls)
  /\ \A n \in 1..Len(fetches) : fetches[n] = urls[n]
  /\ Logged("log", "Successfully retrieved location from ipapi.co") # {} => Len(fetches) = 1
  /\ \A n \in 1..Len(calls.fetchFromProvider) :
       WellFormed(calls.fetchFromProvider[n].value) =>
         Len(fetches) = n /\ Len(calls.fetchFromProvider) = n

\* the first provider has answered with a valid record, and the call is over
C7_Witness ==
  /\ LocationFound
  /\ Len(calls.fetchFromProvider) = 1
  /\ fetches = <<"https://ipapi.co/json/">>
  /\ cm.pc = "done" \/ race.pc = "done"

(***************************************************************************)
(* C8.  The promise of getLocation never rejects; once the call is over it *)
(* has fulfilled, with undefined exactly when no provider gave a valid     *)
(* record, and then 'All location providers failed. Location data          *)
(* unavailable.' was logged once (and never otherwise).                    *)
(***************************************************************************)
C8_GetLocationNeverRejects ==
  /\ locP.status # "rejected"
  /\ loc.pc = "done" =>
       /\ locP.status = "fulfilled"
       /\ locP.value = Undefined <=>
            /\ Len(calls.fetchFromProvider) = Len(LOCATION_PROVIDERS)
            /\ \A n \in 1..Len(calls.fetchFromProvider) :
                 ~WellFormed(calls.fetchFromProvider[n].value)
  /\ Cardinality(Logged("warn", AllFailedWarning)) =
       IF loc.pc = "done" /\ locP.value = Undefined THEN 1 ELSE 0

\* undefined after the first request was aborted by its timer and the second
\* was rejected with a value that is no Error
C8_Witness ==
  /\ LocationDone
  /\ locP.value = Undefined
  /\ LoggedWith("warn", "timed out after 5000ms") # {}
  /\ LoggedWith("warn", "Unknown error fetching location from ip-api.com") # {}

(***************************************************************************)
(* C9.  When the first provider fails, for whatever reason, and the second *)
(* gives a valid record, getLocation returns the second's translated       *)
(* record, and one warning that names the first provider was logged.       *)
(***************************************************************************)
C9_FallbackWarnsOnce ==
  LocationFound /\ Len(calls.fetchFromProvider) = 2 =>
    /\ locP.value = parser(2, loc.data)
    /\ Cardinality(LoggedWith("warn", "ipapi.co")) = 1

(***************************************************************************)
(* C10.  A record that getLocation or getLocationWithTimeout resolves to   *)
(* has a non-empty country and city, and either no coordinates or a finite *)
(* latitude in [-90, 90] with a finite longitude in [-180, 180]; it is the *)
(* whole translation of the answer of the provider it came from.           *)
(***************************************************************************)
C10_ReturnedRecordsAreValid ==
  /\ locP.status = "fulfilled" /\ locP.value \notin {Undefined, Null} =>
       /\ WellFormed(locP.value)
       /\ locP.value = parser(loc.idx, loc.data)
  /\ race.promise.status = "fulfilled" /\ race.promise.value # Undefined =>
       /\ WellFormed(race.promise.value)
       /\ race.promise.value = parser(loc.idx, loc.data)

\* getLocationWithTimeout has resolved to a record of the second provider with
\* both coordinates at a bound, the first having answered one out of range
C10_Witness ==
  /\ race.promise.status = "fulfilled"
  /\ race.promise.value # Undefined
  /\ Get(race.promise.value, "latitude") = Num(-90)
  /\ Get(race.promise.value, "longitude") = Num(180)
  /\ Len(calls.fetchFromProvider) = 2
  /\ Typeof(calls.fetchFromProvider[1].value) = "object"

(***************************************************************************)
(* C11.  Coordinate validation includes its bounds: an answer with country *)
(* and city is returned by getLocation when its latitude is 90 and its     *)
(* longitude -180, and when it has no coordinates; it is passed over, as   *)
(* no location, when its latitude is 200 or -95, its longitude is 200, or  *)
(* either coordinate is NaN.                                               *)
(***************************************************************************)
\* getLocation returned the record of its n-th attempt / went past it
Accepted(n) ==
  /\ n = Len(calls.fetchFromProvider)
  /\ loc.pc = "done"
  /\ locP = Fulfilled(calls.fetchFromProvider[n].value)
Passed(n) ==
  /\ ~Accepted(n)
  /\ loc.idx > n \/ (loc.pc = "done" /\ locP = Fulfilled(Undefined))

C11_BoundsInclusive ==
  \A n \in 1..Len(calls.fetchFromProvider) :
    LET r == calls.fetchFromProvider[n].value IN
    r # Undefined =>
      LET latitude == Get(r, "latitude")
          longitude == Get(r, "longitude")
      IN
      /\ latitude \in {Num(90), Num(0)} /\ longitude \in {Num(-180), Num(0)} => Accepted(n)
      /\ latitude = Undefined /\ longitude = Undefined => Accepted(n)
      /\ \/ latitude \in {Num(200), Num(-95), NaN}
         \/ longitude \in {Num(200), NaN}
         => Passed(n)

\* the second provider's answer at both bounds was returned after the first's,
\* with latitude 200, was passed over
C11_Witness ==
  /\ Len(calls.fetchFromProvider) = 2
  /\ calls.fetchFromProvider[1].value # Undefined
  /\ Get(calls.fetchFromProvider[1].value, "latitude") = Num(200)
  /\ Accepted(2)
  /\ locP.value # Undefined
  /\ Get(locP.value, "latitude") = Num(90)
  /\ Get(locP.value, "longitude") = Num(-180)

(***************************************************************************)
(* C12.  The promise of getLocationWithTimeout(t) never rejects, and is    *)
(* not pending once the clock is past t.  Settled, it holds getLocation's  *)
(* result when getLocation returned before the timer fired, and undefined, *)
(* after the warning 'Location request timed out after <t>ms', when the    *)
(* timer fired first, whatever became of the providers' requests.          *)
(***************************************************************************)
\* where in the log getLocation's return shows (it logs as it returns), and
\* where the timer of getLocationWithTimeout does
ReturnLogged ==
  Logged("warn", AllFailedWarning) \cup LoggedWith("log", "Successfully retrieved location from")
TimeoutLogged ==
  Logged("warn", "Location request timed out after " \o NatToString(race.timeoutMs, 10) \o "ms")
TimerFirst ==
  \E w \in TimeoutLogged : \A r \in ReturnLogged : w < r

RaceResolved ==
  /\ race.promise.status # "rejected"
  /\ race.pc = "racing" => race.promise.status = "pending" /\ now <= race.timeoutMs
  /\ race.pc = "done" =>
       /\ race.promise.status = "fulfilled"
       /\ IF TimerFirst
          THEN race.promise.value = Undefined
          ELSE ReturnLogged # {} /\ locP.status = "fulfilled" /\ race.promise.value = locP.value

C12_RaceAlwaysResolves ==
  /\ []RaceResolved
  /\ (race.pc = "racing") ~> (race.pc = "done")

\* the timer won while the first request was still unanswered, and undefined
\* stayed the result when getLocation later returned a record
C12_Witness ==
  /\ race.pc = "done"
  /\ race.promise = Fulfilled(Undefined)
  /\ TimerFirst
  /\ LocationFound
  /\ TimeoutLogged # {}

(***************************************************************************)
(* C13.  Every call of getFingerprint returns, and returns a non-empty     *)
(* string, whatever the environment has or lacks.                          *)
(***************************************************************************)
C13_FingerprintNeverThrows ==
  \A n \in 1..Len(calls.getFingerprint) :
    /\ ~calls.getFingerprint[n].thrown
    /\ Typeof(calls.getFingerprint[n].value) = "string"
    /\ calls.getFingerprint[n].value.v # ""

(***************************************************************************)
(* C14.  getFingerprint walks its tiers in order: the primary strategy's   *)
(* value is returned, with no warning, when the primary strategy gave one; *)
(* when it threw or gave nothing, a value is still returned, after one     *)
(* warning if it is the hash of the basic characteristics and after two if *)
(* it is a token fallback_<hex>.                                           *)
(***************************************************************************)
C14_TiersInOrder ==
  Len(calls.getFingerprint) = 1 =>
    LET r == calls.getFingerprint[1]
        primary == IF calls.comprehensive[1] THEN getComprehensiveFingerprint(env)
                   ELSE getFastFingerprint(env)
        failed == primary.thrown \/ ~Truthy(primary.value)
        warnings == Cardinality({n \in 1..Len(log) : log[n].level = "warn"})
    IN
    /\ ~r.thrown
    /\ Typeof(r.value) = "string"
    /\ ~failed => r = primary /\ warnings = 0
    /\ failed =>
         /\ warnings \in {1, 2}
         /\ warnings = 2 <=> (Len(r.value.v) > 9 /\ SubSeq(r.value.v, 1, 9) = "fallback_")

userAgent == env.navigator.v.userAgent.v

\* the record a call of parseUserAgent returned
Classified == {r.value.v : r \in Returned("parseUserAgent")}

\* the user agents of the tests that carry none of the patterns
Unmatched == EdgeCases \cup {"Mozilla/5.0 (Unknown Platform) WebKit/537.36"}

(***************************************************************************)
(* C16.  For every user-agent string parseUserAgent returns and does not   *)
(* throw; the record carries the user agent unchanged and a deviceType of   *)
(* desktop, mobile or tablet; the empty string and a string that matches   *)
(* no pattern give platform Unknown, browser Unknown and deviceType        *)
(* desktop.                                                                *)
(***************************************************************************)
C16_ClassifierTotal ==
  /\ Thrown("parseUserAgent") = {}
  /\ \A r \in Classified :
       /\ r.userAgent = Str(userAgent)
       /\ r.deviceType \in {Str("desktop"), Str("mobile"), Str("tablet")}
       /\ userAgent \in Unmatched =>
            /\ r.platform = Str("Unknown")
            /\ r.browser = Str("Unknown")
            /\ r.deviceType = Str("desktop")

\* the empty user agent has been classified
C16_Witness ==
  /\ userAgent = ""
  /\ Len(calls.parseUserAgent) = 1
  /\ calls.parseUserAgent[1] =
       Return(Obj([userAgent |-> Str(""), platform |-> Str("Unknown"),
                   browser |-> Str("Unknown"), deviceType |-> Str("desktop")]))

\* the markers of the browsers built on Chromium, each with the browser's name
ChromiumMarkers ==
  {<<"Edg/", "Edge">>, <<"OPR/", "Opera">>, <<"Brave/", "Brave">>, <<"Vivaldi/", "Vivaldi">>}

ChromeMarker == "Chrome/"

(***************************************************************************)
(* C17.  A user agent that carries the Chrome marker together with the     *)
(* marker of Edge (Edg/), Opera (OPR/), Brave (Brave/) or Vivaldi          *)
(* (Vivaldi/) is classified as that browser, and so never as Chrome.       *)
(***************************************************************************)
C17_ChromiumBrowserBeforeChrome ==
  \A r \in Classified : \A m \in ChromiumMarkers :
    Contains(userAgent, ChromeMarker) /\ Contains(userAgent, m[1]) =>
      r.browser = Str(m[2]) /\ r.browser # Str("Chrome")

\* the Edge user agent of the tests has been classified as Edge
C17_Witness ==
  /\ userAgent = UA_ChromeWindows \o " Edg/91.0.864.59"
  /\ Contains(userAgent, ChromeMarker)
  /\ Classified # {}
  /\ \A r \in Classified : r.browser = Str("Edge")

SamsungMarker == "SamsungBrowser/"

(***************************************************************************)
(* C18.  A user agent that carries the Samsung Internet marker             *)
(* (SamsungBrowser/) together with the Chrome marker is classified as      *)
(* Samsung Internet, not as Chrome.                                        *)
(***************************************************************************)
C18_SamsungBeforeChrome ==
  \A r \in Classified :
    Contains(userAgent, SamsungMarker) /\ Contains(userAgent, ChromeMarker) =>
      r.browser = Str("Samsung Internet")

SafariMarker == "Safari/"

(***************************************************************************)
(* C19.  A user agent with a Safari marker and no Chrome marker is         *)
(* classified as Safari; a user agent that carries both a Safari marker    *)
(* and a Chrome marker is never classified as Safari.                      *)
(***************************************************************************)
C19_SafariOnlyWithoutChrome ==
  \A r \in Classified :
    /\ Contains(userAgent, SafariMarker) /\ ~Contains(userAgent, ChromeMarker) =>
         r.browser = Str("Safari")
    /\ Contains(userAgent, SafariMarker) /\ Contains(userAgent, ChromeMarker) =>
         r.browser # Str("Safari")

\* Safari on a Mac has been classified as Safari
C19_Witness ==
  /\ userAgent = "Mozilla/5.0 (Macintosh; Intel Mac OS X 10_15_7) AppleWebKit/605.1.15 (KHTML, like Gecko) Version/14.1.1 Safari/605.1.15"
  /\ ~Contains(userAgent, ChromeMarker)
  /\ Classified # {}
  /\ \A r \in Classified : r.browser = Str("Safari")

(***************************************************************************)
(* C20.  A user agent with the iPad marker is classified as platform       *)
(* iPadOS and deviceType tablet, although it also carries Mobile and       *)
(* Mac OS X; a user agent with the iPhone marker is classified as platform *)
(* iOS and deviceType mobile.                                              *)
(***************************************************************************)
C20_IPadAndIPhone ==
  \A r \in Classified :
    /\ Contains(userAgent, "iPad") =>
         r.platform = Str("iPadOS") /\ r.deviceType = Str("tablet")
    /\ Contains(userAgent, "iPhone") =>
         r.platform = Str("iOS") /\ r.deviceType = Str("mobile")

\* Safari on an iPad, whose user agent carries Mobile and Mac OS X, has been
\* classified as a tablet with iPadOS
C20_Witness ==
  /\ userAgent = UA_SafariIPad
  /\ Contains(userAgent, "Mobile") /\ Contains(userAgent, "Mac OS X")
  /\ Classified # {}
  /\ \A r \in Classified : r.platform = Str("iPadOS") /\ r.deviceType = Str("tablet")

(***************************************************************************)
(* C21.  A user agent of Chrome OS, one that carries the CrOS token, is    *)
(* classified as platform Chrome OS.                                       *)
(***************************************************************************)
C21_ChromeOSDetected ==
  \A r \in Classified :
    Contains(userAgent, "CrOS") => r.platform = Str("Chrome OS")

(***************************************************************************)
(* C22.  A user agent of an Android tablet, one with the Android marker    *)
(* and without the Mobile token, is classified as deviceType tablet.       *)
(***************************************************************************)
C22_AndroidTabletDetected ==
  \A r \in Classified :
    Contains(userAgent, "Android") /\ ~Contains(userAgent, "Mobile") =>
      r.deviceType = Str("tablet")

(***************************************************************************)
(* C23.  In collectMetadata the classifier has been called and has         *)
(* returned before the fingerprint is generated or a provider is           *)
(* requested; when the classifier throws, getFingerprint is not called and *)
(* no provider is requested.                                               *)
(***************************************************************************)
C23_ClassifierFirst ==
  /\ Called /\ (calls.getFingerprint # <<>> \/ fetches # <<>> \/ fpP # NoPromise \/ locP # NoPromise) =>
       /\ Len(calls.parseUserAgent) = 1
       /\ ~calls.parseUserAgent[1].thrown
  /\ Thrown("parseUserAgent") # {} =>
       /\ calls.getFingerprint = <<>>
       /\ fetches = <<>>
       /\ fpP = NoPromise /\ locP = NoPromise
       /\ \A i \in Providers : ~timers[i].armed

\* the classifier threw in a call that asked for the fingerprint and the location
C23_Witness ==
  /\ Thrown("parseUserAgent") # {}
  /\ includeLocation /\ includeFingerprint
  /\ cm.pc = "done"
  /\ fetches = <<>> /\ calls.getFingerprint = <<>>

\* the requests issued whose attempt has not ended
InFlight == Len(fetches) - Len(calls.fetchFromProvider)

(***************************************************************************)
(* C24.  Never are two provider requests of one getLocation call in        *)
(* flight: a request is in flight exactly while its attempt is fetching or *)
(* reading, and the request to provider 2 is issued only after the attempt *)
(* on provider 1 has ended.                                                *)
(***************************************************************************)
C24_OneRequestInFlight ==
  /\ InFlight \in {0, 1}
  /\ InFlight = 1 <=> loc.pc \in {"fetching", "reading"}
  /\ Len(fetches) >= 2 => Len(calls.fetchFromProvider) >= 1

\* the request to provider 2 is in flight, the attempt on provider 1 has ended
C24_Witness ==
  /\ Len(fetches) = 2
  /\ Len(calls.fetchFromProvider) = 1
  /\ loc = [pc |-> "fetching", idx |-> 2, data |-> Undefined]

\* the requests sent to provider i
RequestsTo(i) == {n \in 1..Len(fetches) : fetches[n] = LOCATION_PROVIDERS[i].url}

(***************************************************************************)
(* C25.  Nothing is retried: in one collectMetadata call parseUserAgent is *)
(* called exactly once and getFingerprint at most once, and one            *)
(* getLocation call requests each provider at most once, two requests at   *)
(* most.                                                                   *)
(***************************************************************************)
C25_NothingRetried ==
  /\ Called => Len(calls.parseUserAgent) = 1
  /\ Len(calls.getFingerprint) <= 1
  /\ \A i \in Providers : Cardinality(RequestsTo(i)) <= 1
  /\ Len(fetches) <= 2
  /\ Len(calls.fetchFromProvider) <= Len(fetches)

\* a finished call in which the fingerprint was generated and both providers
\* were requested and failed
C25_Witness ==
  /\ cm.pc = "done"
  /\ Len(calls.parseUserAgent) = 1
  /\ Len(calls.getFingerprint) = 1
  /\ Len(fetches) = 2
  /\ Len(calls.fetchFromProvider) = 2
  /\ locP = Fulfilled(Undefined)

\* the first record of the attempts a getLocation call made that is truthy and
\* valid, undefined when there is none
FirstValid(attempts) ==
  LET valid == {n \in 1..Len(attempts) :
                  Truthy(attempts[n].value) /\ validateLocationData(attempts[n].value)}
  IN  IF valid = {} THEN Undefined
      ELSE attempts[CHOOSE n \in valid : \A m \in valid : n <= m].value

\* what parseUserAgent() and getFingerprint(false) come to in each environment
ClassifiedIn == [e \in Environments |-> parseUserAgent(e)]
FingerprintIn == [e \in Environments |-> getFingerprint(e, FALSE)]

\* what the call with the locals c settles with when it runs alone in the
\* environment, given what its provider attempts came to
Alone(c) ==
  LET uaInfo == ClassifiedIn[env]
      location == IF Truthy(Option(c.opts, "includeLocation", Bool(FALSE)))
                  THEN FirstValid(c.calls.fetchFromProvider) ELSE Null
      fingerprint == IF Truthy(Option(c.opts, "includeFingerprint", Bool(TRUE)))
                     THEN FingerprintIn[env] ELSE Return(Undefined)
      fp == IF fingerprint.thrown THEN Undefined ELSE fingerprint.value
  IN  IF uaInfo.thrown THEN Rejected(uaInfo.value)
      ELSE Fulfilled(BuildMetadata(uaInfo.value, Fulfilled(location), Fulfilled(fp)).value)

(***************************************************************************)
(* C26.  Two collectMetadata calls whose steps interleave are independent: *)
(* each settles with what it settles with when it runs alone in the same   *)
(* environment with the same provider answers, whatever the other call     *)
(* does meanwhile.                                                         *)
(***************************************************************************)
C26_InterleavedCallsIndependent ==
  \A c \in {Running, other} : c.cm.pc = "done" => c.cm.promise = Alone(c)

\* both calls have finished, with different records, and the console shows
\* that their steps alternated: a failure on provider 1 of the one call, then
\* the answer of provider 1 to the other call, then the answer of provider 2
C26_Witness ==
  /\ cm.pc = "done" /\ other.cm.pc = "done"
  /\ cm.promise.status = "fulfilled" /\ other.cm.promise.status = "fulfilled"
  /\ cm.promise # other.cm.promise
  /\ Len(log) = 3
  /\ LoggedWith("warn", "Failed to fetch location from " \o LOCATION_PROVIDERS[1].name) = {1}
  /\ Logged("log", "Successfully retrieved location from " \o LOCATION_PROVIDERS[1].name) = {2}
  /\ Logged("log", "Successfully retrieved location from " \o LOCATION_PROVIDERS[2].name) = {3}

TimedOutWarning(name) == "Location request to " \o name \o " timed out after 5000ms"
FailedWarning(name) == "Failed to fetch location from " \o name \o ":"
UnknownWarning(name) == "Unknown error fetching location from " \o name \o ":"

ProviderNames == {"ipapi.co", "ip-api.com"}

\* the console call expected for what the catch block caught
Reported(c) ==
  LET name == IF c.provider = 1 THEN "ipapi.co" ELSE "ip-api.com" IN
  IF c.error.t = "error" /\ c.error.name = "AbortError"
  THEN [level |-> "warn", args |-> <<Str(TimedOutWarning(name))>>]
  ELSE IF c.error.t = "error"
  THEN [level |-> "warn", args |-> <<Str(FailedWarning(name)), Str(c.error.message)>>]
  ELSE [level |-> "warn", args |-> <<Str(UnknownWarning(name)), c.error>>]

\* a console call that names a provider in a warning
NamesProvider(entry) ==
  entry.level = "warn" /\ \E name \in ProviderNames : Contains(entry.args[1].v, name)

(***************************************************************************)
(* C28.  Every provider attempt that failed, fetchFromProvider returning   *)
(* undefined, is reported by one warning that names the provider: the      *)
(* timed out message when an Error named AbortError was thrown, Failed to  *)
(* fetch location from <provider>: with the message for any other Error,   *)
(* and Unknown error fetching location from <provider>: with the value     *)
(* for a thrown value that is no Error.  The three are distinct.           *)
(***************************************************************************)
C28_FailureWarningsDistinct ==
  /\ Cardinality({n \in 1..Len(calls.fetchFromProvider) :
                    calls.fetchFromProvider[n].value = Undefined}) = Len(calls.caught)
  /\ SelectSeq(log, NamesProvider) = [k \in 1..Len(calls.caught) |-> Reported(calls.caught[k])]
  /\ \A name \in ProviderNames :
       Cardinality({TimedOutWarning(name), FailedWarning(name), UnknownWarning(name)}) = 3

\* the request to the first provider was aborted by its timer and the one to
\* the second rejected with a string: two failures, two different warnings
C28_Witness ==
  /\ Len(calls.caught) = 2
  /\ calls.caught[1].error.t = "error" /\ calls.caught[1].error.name = "AbortError"
  /\ calls.caught[2].error = Str("String error")
  /\ Logged("warn", TimedOutWarning("ipapi.co")) # {}
  /\ Logged("warn", UnknownWarning("ip-api.com")) # {}

(***************************************************************************)
(* C29.  A provider attempt, the request and the reading of the body, that *)
(* has not completed 5000 ms after it began is ended by its timer, and     *)
(* getLocation goes on: every getLocation call settles in the end, even    *)
(* when a provider never answers.  Stated for the getLocation call that    *)
(* getLocationWithTimeout makes, in which no other job is waiting.         *)
(***************************************************************************)
C29_AttemptsTimeOut ==
  (race.pc # "idle" /\ loc.pc \in {"fetching", "reading"}) ~> (loc.pc = "done")

(***************************************************************************)
(* The two elements of Promise.allSettled in either order.  With the       *)
(* getLocation of location.ts the fingerprint job, queued by               *)
(* Promise.resolve().then, runs before any answer of a provider; with a    *)
(* getLocation whose promise settles at once (metadata.test.ts gives it    *)
(* mockResolvedValue) the location is there first.  Here an answer of a    *)
(* provider may come while the fingerprint job still waits, so that both   *)
(* orders happen.                                                          *)
(***************************************************************************)
NextUnordered ==
  \/ Call
  \/ FingerprintJob
  \/ Settle
  \/ FetchResolved
  \/ FetchRejected
  \/ BodyResolved
  \/ BodyRejects
  \/ \E i \in Providers : TimerFires(i)
  \/ Tick

SpecUnordered == Init /\ [][NextUnordered]_vars

\* both tasks of the call are enabled
BothEnabled == includeLocation /\ includeFingerprint

Settled(p) == p.status \in {"fulfilled", "rejected"}

(***************************************************************************)
(* C30.  With fingerprint and location both enabled collectMetadata        *)
(* resolves only after both tasks have settled, and the record it resolves *)
(* to is the same whichever of the two settles first: it is the record of  *)
(* the classification, of what getLocation came to and of what             *)
(* getFingerprint came to.                                                 *)
(***************************************************************************)
C30_BothSettledAnyOrder ==
  Resolved /\ BothEnabled =>
    /\ Settled(locP) /\ Settled(fpP)
    /\ cm.promise = Alone(Running)

\* a call with both tasks has resolved with the location in its record, and
\* the console shows that the location was there before the fingerprint job
\* ran: the success of the provider, then the failure of getFingerprint
C30_Witness ==
  /\ Resolved /\ BothEnabled
  /\ Has(cm.promise.value, "location")
  /\ Len(log) = 2
  /\ Logged("log", "Successfully retrieved location from " \o LOCATION_PROVIDERS[1].name) = {1}
  /\ LoggedWith("warn", "Failed to generate fingerprint:") = {2}

\* the record getLocation resolved with, from which the location of the
\* resolved record is taken
SourceRecord == locP.value

(***************************************************************************)
(* C31.  When the record collectMetadata resolves to has a location key,   *)
(* that object holds country and city and no ip key, and either both       *)
(* latitude and longitude or neither, each with the value of the record    *)
(* getLocation returned (a coordinate equal to 0 is kept).                 *)
(***************************************************************************)
C31_LocationShape ==
  Resolved /\ Has(cm.promise.value, "location") =>
    LET location == cm.promise.value.v["location"]
        keys == DOMAIN location.v
    IN  /\ keys \in {{"country", "city"}, {"country", "city", "latitude", "longitude"}}
        /\ \A k \in keys : location.v[k] = Get(SourceRecord, k)
        /\ \A k \in {"latitude", "longitude"} : Get(SourceRecord, k) # Undefined => k \in keys

\* a resolved record whose location has the latitude 0 beside a longitude
\* that is not 0
C31_Witness ==
  /\ Resolved
  /\ Has(cm.promise.value, "location")
  /\ Get(cm.promise.value.v["location"], "latitude") = Num(0)
  /\ Get(cm.promise.value.v["location"], "longitude") = Num(180)

\* the field names of a LocationData record
LocationFields == {"country", "city", "latitude", "longitude"}

(***************************************************************************)
(* C32.  The record getLocation returns has the field names of             *)
(* LocationData and no other, whichever provider answered: from the body   *)
(* of provider 1 the country is country_name (country when that is absent) *)
(* and the coordinates are latitude and longitude, from the body of        *)
(* provider 2 the country is country and the coordinates are lat and lon.  *)
(***************************************************************************)
C32_ProviderFieldsBridged ==
  LocationFound =>
    LET result == locP.value
        data == loc.data
    IN  /\ DOMAIN result.v = LocationFields
        /\ Get(result, "city") = Get(data, "city")
        /\ loc.idx = 1 =>
             /\ Get(result, "country") =
                  (IF Truthy(Get(data, "country_name")) THEN Get(data, "country_name")
                   ELSE Get(data, "country"))
             /\ Get(result, "latitude") = Get(data, "latitude")
             /\ Get(result, "longitude") = Get(data, "longitude")
        /\ loc.idx = 2 =>
             /\ Get(result, "country") = Get(data, "country")
             /\ Get(result, "latitude") = Get(data, "lat")
             /\ Get(result, "longitude") = Get(data, "lon")

\* provider 1 has failed and getLocation has returned the record of a body of
\* provider 2 that carries lat and lon
C32_Witness ==
  /\ LocationFound
  /\ loc.idx = 2
  /\ Len(calls.caught) = 1
  /\ Get(loc.data, "lat") = Num(-90) /\ Get(loc.data, "lon") = Num(180)
  /\ Get(locP.value, "country") = Str("France")
  /\ Get(locP.value, "latitude") = Num(-90)

\* the entries of a table whose pattern matches the lower-cased user agent
MatchingEntries(table) ==
  {i \in 1..Len(table) : Test(table[i].pattern, toLowerCase(userAgent))}

(***************************************************************************)
(* C33.  The platform is the name of the first entry of the platform       *)
(* table, in declared order, whose pattern matches the lower-cased user    *)
(* agent, and Unknown when none matches: Windows NT 10 gives Windows 10/11 *)
(* and not Windows, an Android user agent that contains Linux gives        *)
(* Android, an Ubuntu user agent that contains Linux gives Ubuntu.         *)
(***************************************************************************)
C33_FirstPlatformWins ==
  \A r \in Classified :
    /\ MatchingEntries(platforms) = {} => r.platform = Str("Unknown")
    /\ \A i \in MatchingEntries(platforms) :
         (\A j \in MatchingEntries(platforms) : i <= j) => r.platform = Str(platforms[i].name)
    /\ Contains(userAgent, "Windows NT 10") => r.platform = Str("Windows 10/11")
    /\ Contains(userAgent, "Android") /\ Contains(userAgent, "Linux") =>
         r.platform = Str("Android")
    /\ Contains(userAgent, "Ubuntu") /\ Contains(userAgent, "Linux") =>
         r.platform = Str("Ubuntu")

\* the Android user agent of the tests, which matches the entries of Android
\* and of Linux, has been classified as Android
C33_Witness ==
  /\ userAgent = "Mozilla/5.0 (Linux; Android 11; SM-G991B) AppleWebKit/537.36 (KHTML, like Gecko) Chrome/91.0.4472.124 Mobile Safari/537.36"
  /\ Cardinality(MatchingEntries(platforms)) = 2
  /\ Classified # {}
  /\ \A r \in Classified : r.platform = Str("Android")

\* the entries of the browser table whose marker is present in the user
\* agent, the entry of Safari counting only when no Chrome marker is present
PresentBrowsers ==
  {i \in MatchingEntries(browsers) :
     browsers[i].name = "Safari" => ~Contains(userAgent, ChromeMarker)}

(***************************************************************************)
(* C34.  The browser is the name of the first entry of the browser table,  *)
(* in declared order, whose marker is present in the user agent (the entry *)
(* of Safari counting as present only when no Chrome marker is), and       *)
(* Unknown when none is: a user agent that carries an earlier-listed       *)
(* marker such as Edg/ or Firefox/ together with a Safari marker is        *)
(* classified as the earlier-listed browser.                               *)
(***************************************************************************)
C34_FirstBrowserWins ==
  \A r \in Classified :
    /\ PresentBrowsers = {} => r.browser = Str("Unknown")
    /\ \A i \in PresentBrowsers :
         (\A j \in PresentBrowsers : i <= j) => r.browser = Str(browsers[i].name)
    /\ Contains(userAgent, "Edg/") /\ Contains(userAgent, SafariMarker) =>
         r.browser = Str("Edge")
    /\ Contains(userAgent, "Firefox/") /\ Contains(userAgent, SafariMarker) =>
         r.browser = Str("Firefox")

\* the attempt on provider i has ended: getLocation has gone on to a later
\* provider or has returned
AttemptEnded(i) ==
  \/ loc.idx > i
  \/ loc.idx = i /\ loc.pc = "done"

(***************************************************************************)
(* C35.  When the attempt on a provider has ended, with a record or with a *)
(* failure, its timeout timer is no longer pending: the abort of a request *)
(* is never triggered after the attempt of that request has finished.      *)
(***************************************************************************)
C35_NoTimerAfterAttempt ==
  \A i \in Providers : AttemptEnded(i) => ~timers[i].armed

(***************************************************************************)
(* C36.  The warning Location request timed out after <t>ms is logged only *)
(* by a call of getLocationWithTimeout whose timer fired before            *)
(* getLocation resolved: a call that returned what getLocation returned    *)
(* never logs it, neither before it returns nor afterwards.                *)
(***************************************************************************)
C36_TimeoutWarningOnlyOnTimeout ==
  \A w \in TimeoutLogged : \A r \in ReturnLogged : w < r

(***************************************************************************)
(* C37.  A source that is disabled is never touched: with includeLocation  *)
(* false collectMetadata issues no request to a provider (and sets no      *)
(* timer), and with includeFingerprint false it never calls getFingerprint *)
(* and the record it resolves to has no fingerprint key.                   *)
(***************************************************************************)
C37_DisabledSourceUntouched ==
  /\ Called /\ ~includeLocation =>
       /\ fetches = <<>>
       /\ calls.fetchFromProvider = <<>>
       /\ loc.pc = "idle"
       /\ \A i \in Providers : ~timers[i].armed
       /\ Resolved => ~Has(cm.promise.value, "location")
  /\ Called /\ ~includeFingerprint =>
       /\ calls.getFingerprint = <<>>
       /\ Resolved => ~Has(cm.promise.value, "fingerprint")

\* a call with both sources disabled has resolved, in an environment where
\* getFingerprint would have returned a value
C37_Witness ==
  /\ Resolved
  /\ ~includeLocation /\ ~includeFingerprint
  /\ ~FingerprintIn[env].thrown
  /\ fetches = <<>> /\ calls.getFingerprint = <<>>
  /\ DOMAIN cm.promise.value.v = {"userAgent", "browser", "platform", "deviceType", "ipAddress"}

\* the collectMetadata call of the collection that was started last
LastStarted == CHOOSE c \in {Running, other} : c.caller = hook.collections

\* what the state slots of the hook show after a call that settled with p
Shown(p) ==
  IF p.status = "fulfilled" THEN [metadata |-> p.value, error |-> Null]
  ELSE [metadata |-> Null,
        error |-> IF InstanceofError(p.value) THEN Str(p.value.message)
                  ELSE Str("Unknown error occurred")]

(***************************************************************************)
(* C38.  For the hook with refetch, under any interleaving of collections  *)
(* that overlap (the one of the mount and those of refetch): loading is    *)
(* true whenever a collection is still in flight, and once all have        *)
(* settled metadata and error are those of the collection that was started *)
(* last.                                                                   *)
(***************************************************************************)
C38_LastStartedWins ==
  hook.collections >= 1 =>
    /\ hook.inFlight # {} => hook.loading
    /\ hook.inFlight = {} =>
         [metadata |-> hook.metadata, error |-> hook.error] = Shown(LastStarted.cm.promise)

\* the strings the calls of getFingerprint have returned
Fingerprints == {r.value.v : r \in Returned("getFingerprint")}

\* what hashCharacteristics returns in JavaScript for the characteristics of
\* two pages: the loop comes to 1606212073 for Chrome on Windows and to
\* -326370687 for Safari on an iPad
ReferenceHashes ==
  {[navigator |-> Navigator(UA_ChromeWindows), hash |-> "5fbcd9e9"],
   [navigator |-> Navigator(UA_SafariIPad), hash |-> "1374057f"]}

(***************************************************************************)
(* C39.  The hash of the characteristics is h := 31*h + charCode wrapped   *)
(* to a signed 32-bit integer over the characters of the input joined by   *)
(* |, and the result is the lower-case hexadecimal of |h|: a non-empty     *)
(* string of the digits 0-9a-f that denotes a value from 0 to 2^31 (eight  *)
(* digits at most, the first of eight not above 7 unless the string is     *)
(* 80000000), the same for the same input.                                 *)
(***************************************************************************)
C39_HashIsHex32 ==
  /\ \A s \in Fingerprints :
       /\ Len(s) \in 1..8
       /\ \A i \in 1..Len(s) : \E d \in 1..16 : CharAt(s, i) = CharAt(Digits, d)
       /\ Len(s) > 1 => CharAt(s, 1) # "0"
       /\ Len(s) = 8 => s = "80000000" \/ \E d \in 2..8 : CharAt(s, 1) = CharAt(Digits, d)
  /\ \A m, n \in 1..Len(calls.getFingerprint) :
       calls.comprehensive[m] = calls.comprehensive[n] =>
         calls.getFingerprint[m].value = calls.getFingerprint[n].value
  /\ \A n \in 1..Len(calls.getFingerprint) : \A ref \in ReferenceHashes :
       ~calls.comprehensive[n] /\ env.navigator = ref.navigator /\ env.screen = Screen =>
         calls.getFingerprint[n] = Return(Str(ref.hash))

\* the fast fingerprint of Safari on an iPad, whose hash is negative before
\* Math.abs, has been returned twice
C39_Witness ==
  /\ env.navigator = Navigator(UA_SafariIPad) /\ env.screen = Screen
  /\ calls.comprehensive = <<FALSE, FALSE>>
  /\ Fingerprints = {"1374057f"}

====
